---- MODULE Spec2Model ----
(***************************************************************************)
(* Model of the Source-engine model loader of rust_tower_defense:          *)
(*   graphics/models/source_engine.rs             (aggregator, macro)      *)
(*   graphics/models/source_engine/mdl_reader.rs  (studio model)           *)
(*   graphics/models/source_engine/vtx_reader.rs  (mesh topology)          *)
(*   graphics/models/source_engine/vvd_reader.rs  (vertex data)            *)
(*                                                                         *)
(* A file on disk is a record [st, len, w, name]: st says whether the file *)
(* can be opened and read, len is its length in bytes, w maps the byte     *)
(* offsets of its non-zero little-endian 32-bit words to their values      *)
(* (every other byte is zero), and name holds the 64 bytes of the studio   *)
(* header's name field (offsets 12..75).  All offsets stored in the files  *)
(* of the model are multiples of 4, so every 32-bit field is read whole.   *)
(*                                                                         *)
(* A call ends in one of: "ok" (a value), "err" (an Err(..) value with the *)
(* message of the source), "panic" (the thread unwinds, nothing is         *)
(* returned) or "abort" (the process dies on an out-of-buffer read).       *)
(***************************************************************************)
EXTENDS Integers, Sequences, FiniteSets, TLC

VARIABLES
    mdl_disk,         \* <MODEL_PATH><name>.mdl
    vtx_disk,         \* <MODEL_PATH><name>.dx90.vtx
    vvd_disk,         \* <MODEL_PATH><name>.vvd
    overflow_checks,  \* build profile: TRUE = arithmetic overflow panics
    pc,               \* position inside read_source_engine_model
    mdl_file,         \* outcome of read_mdl_file_by_name
    vtx_file,         \* outcome of read_vtx_file_by_name
    vvd_file,         \* outcome of read_vvd_file_by_name
    result,           \* outcome of read_source_engine_model
    first,            \* the outcomes of an earlier load of the same files
    point,            \* geometry.rs: a Point
    bbox,             \* geometry.rs: a BoundingBox
    answer,           \* what the containment queries made so far returned
    map_disk,         \* data/map.bin
    map_dir,          \* whether data/map.bin can be created and written
    map_call,         \* which of game.rs's map functions was called
    map_result,       \* what that call returned
    vloop,            \* vvd_reader.rs: the vertex loop, one iteration a step
    cacher,           \* game.rs: a Cacher and the calls made on it
    app,              \* graphics.rs: the application's main loop
    hal               \* graphics.rs: the HalState's frame counter

loaderVars == <<mdl_disk, vtx_disk, vvd_disk, overflow_checks, pc,
                mdl_file, vtx_file, vvd_file, result, first>>
geoVars == <<point, bbox, answer>>
mapVars == <<map_disk, map_dir, map_call, map_result>>

restVars == <<vloop, cacher, app, hal>>

vars == <<loaderVars, geoVars, mapVars, restVars>>

\* what the model loader leaves alone
aside == <<first, geoVars, mapVars, restVars>>

(***************************************************************************)
(* Program constants                                                       *)
(***************************************************************************)
MDL_HEADER == 1414743113
VVD_HEADER == 1448297545
OPTIMIZED_MODEL_FILE_VERSION == 7

\* mem::size_of of the records, from the struct declarations
SizeofMDLFileHeader == 400
SizeofVTXFileHeader == 36
SizeofVTXFileBodyPartHeader == 8
SizeofVTXFileModelHeader == 8
SizeofVTXFileModelLODHeader == 12
SizeofVTXFileMeshHeader == 12
SizeofVTXFileStripGroupHeader == 28
SizeofVTXFileVertex == 10
SizeofVTXFileIndex == 2
SizeofVTXFileStripHeader == 28
SizeofVVDFileHeader == 64
SizeofVVDFileFixupTable == 12
SizeofVVDFileVertex == 48

\* byte offsets of the fields the loader consumes
MdlOffChecksum == 8
MdlOffName == 12
MdlNameLen == 64
MdlOffBodypartCount == 232
MdlOffStudiohdr2index == 392
VtxOffChecksum == 16
VtxOffNumBodyParts == 28
VtxOffBodyPartOffset == 32
VvdOffChecksum == 8
VvdOffNumFixups == 48
VvdOffFixupTableStart == 52
VvdOffVertexDataStart == 56
VvdOffTangentDataStart == 60

(***************************************************************************)
(* usize arithmetic.  usize is unsigned and wider than i32; the model      *)
(* keeps that shape with the modulus UsizeMod standing for 2^64 (TLC's     *)
(* integers are narrower).  Every count and offset of the model's files    *)
(* has a magnitude far below UsizeMod / 2, so sign extension, wrap-around  *)
(* and the comparisons against buffer lengths behave as on 64 bits.        *)
(***************************************************************************)
UsizeMod == 1073741824

\* `x as usize` for an i32 x: sign-extend, reinterpret as unsigned
AsUsize(n) == n % UsizeMod

\* a + b on usize: panics when overflow checks are on, wraps otherwise
CheckedAdd(oc, a, b) ==
    [ok |-> ~(oc /\ a + b >= UsizeMod), v |-> (a + b) % UsizeMod]

\* a * b on usize
CheckedMul(oc, a, b) ==
    [ok |-> ~(oc /\ a * b >= UsizeMod), v |-> (a * b) % UsizeMod]

\* the little-endian i32 at byte offset o of a buffer
Word(buf, o) == IF o \in DOMAIN buf.w THEN buf.w[o] ELSE 0

(***************************************************************************)
(* copy_c_struct!(type, start_index, i, data): the record of `size` bytes  *)
(* at size * i + start_index.  The slice data[start..end] panics when      *)
(* start > end or end > data.len().                                        *)
(***************************************************************************)
CopyCStruct(oc, size, start_index, i, len) ==
    LET m == CheckedMul(oc, size, AsUsize(i))
        s == CheckedAdd(oc, m.v, start_index)
        e == CheckedAdd(oc, s.v, size)
    IN  IF ~m.ok \/ ~s.ok \/ ~e.ok THEN [ok |-> FALSE, at |-> s.v]
        ELSE IF s.v > e.v \/ e.v > len THEN [ok |-> FALSE, at |-> s.v]
        ELSE [ok |-> TRUE, at |-> s.v]

\* base + offset as usize + (i as usize * stride): the *_start_index
\* expressions of vtx_reader.rs
StartIndex(oc, base, offset, i, stride) ==
    LET a == CheckedAdd(oc, base, AsUsize(offset))
        m == CheckedMul(oc, AsUsize(i), stride)
        b == CheckedAdd(oc, a.v, m.v)
    IN  [ok |-> a.ok /\ m.ok /\ b.ok, v |-> b.v]

\* one entry of the read log: a record of type ty was sliced at offset at;
\* ok = the slice succeeded; oob = bytes outside the buffer were read (a
\* checked slice never reads outside)
LogEntry(ty, at, ok) == [ty |-> ty, at |-> at, ok |-> ok, oob |-> FALSE]

\* a read through the raw header pointer of mdl_reader.rs: bytes 0..upto-1
RawRead(ty, upto, len) == [ty |-> ty, at |-> 0, ok |-> TRUE, oob |-> upto > len]

\* a record read: the start index is computed, then the macro slices
ReadRecord(oc, buf, ty, size, si, start_arg, i) ==
    LET c == IF si.ok THEN CopyCStruct(oc, size, start_arg, i, buf.len)
             ELSE [ok |-> FALSE, at |-> si.v]
    IN  [ok |-> c.ok, at |-> c.at, entry |-> LogEntry(ty, c.at, c.ok)]

Panicked(log) == [st |-> "panic", msg |-> "", v |-> <<>>, log |-> log]
Done(v, log) == [st |-> "ok", msg |-> "", v |-> v, log |-> log]
Failed(msg, log) == [st |-> "err", msg |-> msg, v |-> <<>>, log |-> log]
Aborted(log) == [st |-> "abort", msg |-> "", v |-> <<>>, log |-> log]
NoOutcome == [st |-> "none", msg |-> "", v |-> <<>>, log |-> <<>>]

(***************************************************************************)
(* vtx_reader.rs: the mesh-topology decoder.  Every reader returns         *)
(* [st, msg, v, log]; log is the sequence of record reads made so far.     *)
(* Decoded elements carry two ghost fields next to the source's fields:    *)
(* `at`, the offset the record was sliced at, and `start`, the             *)
(* *_start_index the source computed for it (the base of its children).    *)
(***************************************************************************)
BodyPartHeaderAt(buf, at) ==
    [num_models |-> Word(buf, at), model_offset |-> Word(buf, at + 4)]

ModelHeaderAt(buf, at) ==
    [num_lods |-> Word(buf, at), lod_offset |-> Word(buf, at + 4)]

ModelLODHeaderAt(buf, at) ==
    [num_meshes |-> Word(buf, at), mesh_offset |-> Word(buf, at + 4),
     switch_point |-> Word(buf, at + 8)]

MeshHeaderAt(buf, at) ==
    [num_strip_groups |-> Word(buf, at),
     strip_group_header_offset |-> Word(buf, at + 4),
     flags |-> Word(buf, at + 8) % 256]

StripGroupHeaderAt(buf, at) ==
    [num_verts |-> Word(buf, at), vert_offset |-> Word(buf, at + 4),
     num_indices |-> Word(buf, at + 8), index_offset |-> Word(buf, at + 12),
     num_strips |-> Word(buf, at + 16), strip_offset |-> Word(buf, at + 20),
     flags |-> Word(buf, at + 24) % 256]

VTXFileHeaderAt(buf, at) ==
    [version |-> Word(buf, at),
     checksum |-> Word(buf, at + VtxOffChecksum),
     num_body_parts |-> Word(buf, at + VtxOffNumBodyParts),
     body_part_offset |-> Word(buf, at + VtxOffBodyPartOffset)]

\* the loop shared by read_vertices, read_indices and read_strips:
\* for num in 0..count { start = base + offset + num * size;
\*                       copy_c_struct!(T, start, num, data); push }
RECURSIVE ReadLeafArray(_, _, _, _, _, _, _, _, _)
ReadLeafArray(oc, buf, ty, size, base, offset, count, i, acc) ==
    IF acc.st # "ok" \/ i >= count THEN acc
    ELSE LET si == StartIndex(oc, base, offset, i, size)
             r == ReadRecord(oc, buf, ty, size, si, si.v, i)
             log == Append(acc.log, r.entry)
         IN  IF ~r.ok THEN Panicked(log)
             ELSE ReadLeafArray(oc, buf, ty, size, base, offset, count, i + 1,
                      Done(Append(acc.v, [at |-> r.at, start |-> si.v]), log))

read_vertices(oc, buf, strip_group_header, strip_group_start_index, log) ==
    ReadLeafArray(oc, buf, "VTXFileVertex", SizeofVTXFileVertex,
                  strip_group_start_index, strip_group_header.vert_offset,
                  strip_group_header.num_verts, 0, Done(<<>>, log))

read_indices(oc, buf, strip_group_header, strip_group_start_index, log) ==
    ReadLeafArray(oc, buf, "VTXFileIndex", SizeofVTXFileIndex,
                  strip_group_start_index, strip_group_header.index_offset,
                  strip_group_header.num_indices, 0, Done(<<>>, log))

read_strips(oc, buf, strip_group_header, strip_group_start_index, log) ==
    ReadLeafArray(oc, buf, "VTXFileStripHeader", SizeofVTXFileStripHeader,
                  strip_group_start_index, strip_group_header.strip_offset,
                  strip_group_header.num_strips, 0, Done(<<>>, log))

\* the guards in front of the three array reads of a strip group
ReadsVertices(h) == h.num_verts > 0 /\ h.vert_offset # 0
ReadsIndices(h) == h.num_indices > 0 /\ h.index_offset # 0
ReadsStrips(h) == h.num_strips > 0 /\ h.strip_offset # 0

RECURSIVE ReadStripGroupsLoop(_, _, _, _, _, _)
ReadStripGroupsLoop(oc, buf, mesh_header, mesh_start_index, n, acc) ==
    IF acc.st # "ok" \/ n >= mesh_header.num_strip_groups THEN acc
    ELSE LET si == StartIndex(oc, mesh_start_index,
                              mesh_header.strip_group_header_offset, n,
                              SizeofVTXFileStripGroupHeader)
             r == ReadRecord(oc, buf, "VTXFileStripGroupHeader",
                             SizeofVTXFileStripGroupHeader, si, si.v, n)
             log0 == Append(acc.log, r.entry)
             h == StripGroupHeaderAt(buf, r.at)
             \* strip_groups.push(..) once the three arrays are read
             Push(vs, ix, ss) ==
                 IF ss.st # "ok" THEN ss
                 ELSE ReadStripGroupsLoop(oc, buf, mesh_header,
                          mesh_start_index, n + 1,
                          Done(Append(acc.v, [header |-> h, at |-> r.at,
                                              start |-> si.v,
                                              vertices |-> vs.v,
                                              indices |-> ix.v,
                                              strips |-> ss.v]), ss.log))
             Strips(vs, ix) ==
                 IF ix.st # "ok" THEN ix
                 ELSE Push(vs, ix, IF ReadsStrips(h)
                                   THEN read_strips(oc, buf, h, si.v, ix.log)
                                   ELSE Done(<<>>, ix.log))
             Indices(vs) ==
                 IF vs.st # "ok" THEN vs
                 ELSE Strips(vs, IF ReadsIndices(h)
                                 THEN read_indices(oc, buf, h, si.v, vs.log)
                                 ELSE Done(<<>>, vs.log))
         IN  IF ~r.ok THEN Panicked(log0)
             ELSE Indices(IF ReadsVertices(h)
                          THEN read_vertices(oc, buf, h, si.v, log0)
                          ELSE Done(<<>>, log0))

read_strip_groups(oc, buf, mesh_header, mesh_start_index, log) ==
    ReadStripGroupsLoop(oc, buf, mesh_header, mesh_start_index, 0,
                        Done(<<>>, log))

\* `for mesh_num in 0..1`: the loop bound of read_meshes
MeshLoopEnd(lod_header) == 1

RECURSIVE ReadMeshesLoop(_, _, _, _, _, _)
ReadMeshesLoop(oc, buf, lod_header, lod_start_index, mesh_num, acc) ==
    IF acc.st # "ok" \/ mesh_num >= MeshLoopEnd(lod_header) THEN acc
    ELSE LET si == StartIndex(oc, lod_start_index, lod_header.mesh_offset,
                              mesh_num, SizeofVTXFileMeshHeader)
             r == ReadRecord(oc, buf, "VTXFileMeshHeader",
                             SizeofVTXFileMeshHeader, si, si.v, mesh_num)
             log0 == Append(acc.log, r.entry)
             h == MeshHeaderAt(buf, r.at)
             Push(sg) ==
                 IF sg.st # "ok" THEN sg
                 ELSE ReadMeshesLoop(oc, buf, lod_header, lod_start_index,
                          mesh_num + 1,
                          Done(Append(acc.v, [header |-> h, at |-> r.at,
                                              start |-> si.v,
                                              strip_groups |-> sg.v]),
                               sg.log))
         IN  IF ~r.ok THEN Panicked(log0)
             ELSE Push(IF h.num_strip_groups > 0
                          /\ h.strip_group_header_offset # 0
                       THEN read_strip_groups(oc, buf, h, si.v, log0)
                       ELSE Done(<<>>, log0))

read_meshes(oc, buf, lod_header, lod_start_index, log) ==
    ReadMeshesLoop(oc, buf, lod_header, lod_start_index, 0, Done(<<>>, log))

\* first loop of read_lods: the LOD headers, stored consecutively
RECURSIVE ReadLodHeaders(_, _, _, _, _, _)
ReadLodHeaders(oc, buf, model_header, model_start_index, lod_num, acc) ==
    IF acc.st # "ok" \/ lod_num >= model_header.num_lods THEN acc
    ELSE LET si == StartIndex(oc, model_start_index, model_header.lod_offset,
                              lod_num, SizeofVTXFileModelLODHeader)
             r == ReadRecord(oc, buf, "VTXFileModelLODHeader",
                             SizeofVTXFileModelLODHeader, si, si.v, lod_num)
             log == Append(acc.log, r.entry)
         IN  IF ~r.ok THEN Panicked(log)
             ELSE ReadLodHeaders(oc, buf, model_header, model_start_index,
                      lod_num + 1,
                      Done(Append(acc.v, [header |-> ModelLODHeaderAt(buf, r.at),
                                          at |-> r.at, start |-> si.v]), log))

\* second loop of read_lods: the meshes of every LOD
RECURSIVE ReadLodBodies(_, _, _, _, _)
ReadLodBodies(oc, buf, lod_headers, k, acc) ==
    IF acc.st # "ok" \/ k > Len(lod_headers) THEN acc
    ELSE LET Push(sub) ==
                 IF sub.st # "ok" THEN sub
                 ELSE ReadLodBodies(oc, buf, lod_headers, k + 1,
                          Done(Append(acc.v, [header |-> lod_headers[k].header,
                                              at |-> lod_headers[k].at,
                                              start |-> lod_headers[k].start,
                                              meshes |-> sub.v]), sub.log))
         IN  Push(read_meshes(oc, buf, lod_headers[k].header,
                  lod_headers[k].start, acc.log))

read_lods(oc, buf, model_header, model_start_index, log) ==
    LET Bodies(hs) ==
            IF hs.st # "ok" THEN hs
            ELSE ReadLodBodies(oc, buf, hs.v, 1, Done(<<>>, hs.log))
    IN  Bodies(ReadLodHeaders(oc, buf, model_header, model_start_index, 0,
                              Done(<<>>, log)))

\* the first loop of read_models with model_start_index, which holds the
\* model's index already, handed to the macro as its start index
RECURSIVE ReadModelHeadersDoubled(_, _, _, _, _, _)
ReadModelHeadersDoubled(oc, buf, bodyparts_header, bodypart_start_index, model_num, acc) ==
    IF acc.st # "ok" \/ model_num >= bodyparts_header.num_models THEN acc
    ELSE LET si == StartIndex(oc, bodypart_start_index,
                              bodyparts_header.model_offset, model_num,
                              SizeofVTXFileBodyPartHeader)
             r == ReadRecord(oc, buf, "VTXFileModelHeader",
                             SizeofVTXFileModelHeader, si, si.v, model_num)
             log == Append(acc.log, r.entry)
         IN  IF ~r.ok THEN Panicked(log)
             ELSE ReadModelHeadersDoubled(oc, buf, bodyparts_header,
                      bodypart_start_index, model_num + 1,
                      Done(Append(acc.v, [header |-> ModelHeaderAt(buf, r.at),
                                          at |-> r.at, start |-> si.v]), log))

\* first loop of read_models: model_start_index steps by the size of a
\* body-part header, the record is sliced at
\* size_of::<VTXFileModelHeader>() * model_num + bodypart_start + model_offset
RECURSIVE ReadModelHeaders(_, _, _, _, _, _)
ReadModelHeaders(oc, buf, bodyparts_header, bodypart_start_index, model_num, acc) ==
    IF acc.st # "ok" \/ model_num >= bodyparts_header.num_models THEN acc
    ELSE LET si == StartIndex(oc, bodypart_start_index,
                              bodyparts_header.model_offset, model_num,
                              SizeofVTXFileBodyPartHeader)
             arg == CheckedAdd(oc, bodypart_start_index,
                               AsUsize(bodyparts_header.model_offset))
             r == ReadRecord(oc, buf, "VTXFileModelHeader",
                             SizeofVTXFileModelHeader, si, arg.v, model_num)
             log == Append(acc.log, r.entry)
         IN  IF ~r.ok THEN Panicked(log)
             ELSE ReadModelHeaders(oc, buf, bodyparts_header,
                      bodypart_start_index, model_num + 1,
                      Done(Append(acc.v, [header |-> ModelHeaderAt(buf, r.at),
                                          at |-> r.at, start |-> si.v]), log))

RECURSIVE ReadModelBodies(_, _, _, _, _)
ReadModelBodies(oc, buf, model_headers, j, acc) ==
    IF acc.st # "ok" \/ j > Len(model_headers) THEN acc
    ELSE LET Push(sub) ==
                 IF sub.st # "ok" THEN sub
                 ELSE ReadModelBodies(oc, buf, model_headers, j + 1,
                          Done(Append(acc.v, [header |-> model_headers[j].header,
                                              at |-> model_headers[j].at,
                                              start |-> model_headers[j].start,
                                              lods |-> sub.v]), sub.log))
         IN  Push(read_lods(oc, buf, model_headers[j].header,
                  model_headers[j].start, acc.log))

read_models(oc, buf, bodyparts_header, bodypart_start_index, log) ==
    LET Bodies(hs) ==
            IF hs.st # "ok" THEN hs
            ELSE ReadModelBodies(oc, buf, hs.v, 1, Done(<<>>, hs.log))
    IN  Bodies(ReadModelHeaders(oc, buf, bodyparts_header,
                                bodypart_start_index, 0, Done(<<>>, log)))

\* first loop of read_bodyparts
RECURSIVE ReadBodypartHeaders(_, _, _, _, _)
ReadBodypartHeaders(oc, buf, file_header, body_part_num, acc) ==
    IF acc.st # "ok" \/ body_part_num >= file_header.num_body_parts THEN acc
    ELSE LET si == StartIndex(oc, 0, file_header.body_part_offset,
                              body_part_num, SizeofVTXFileBodyPartHeader)
             r == ReadRecord(oc, buf, "VTXFileBodyPartHeader",
                             SizeofVTXFileBodyPartHeader, si, si.v,
                             body_part_num)
             log == Append(acc.log, r.entry)
         IN  IF ~r.ok THEN Panicked(log)
             ELSE ReadBodypartHeaders(oc, buf, file_header, body_part_num + 1,
                      Done(Append(acc.v, [header |-> BodyPartHeaderAt(buf, r.at),
                                          at |-> r.at, start |-> si.v]), log))

RECURSIVE ReadBodypartBodies(_, _, _, _, _)
ReadBodypartBodies(oc, buf, bodyparts_headers, i, acc) ==
    IF acc.st # "ok" \/ i > Len(bodyparts_headers) THEN acc
    ELSE LET Push(sub) ==
                 IF sub.st # "ok" THEN sub
                 ELSE ReadBodypartBodies(oc, buf, bodyparts_headers, i + 1,
                          Done(Append(acc.v, [header |-> bodyparts_headers[i].header,
                                              at |-> bodyparts_headers[i].at,
                                              start |-> bodyparts_headers[i].start,
                                              models |-> sub.v]), sub.log))
         IN  Push(read_models(oc, buf, bodyparts_headers[i].header,
                  bodyparts_headers[i].start, acc.log))

read_bodyparts(oc, buf, file_header, log) ==
    LET Bodies(hs) ==
            IF hs.st # "ok" THEN hs
            ELSE ReadBodypartBodies(oc, buf, hs.v, 1, Done(<<>>, hs.log))
    IN  Bodies(ReadBodypartHeaders(oc, buf, file_header, 0, Done(<<>>, log)))

\* deserialize, lines 604-622: the buffer has been read
DeserializeBytes(oc, file) ==
    LET c == CopyCStruct(oc, SizeofVTXFileHeader, 0, 0, file.len)
        log0 == <<LogEntry("VTXFileHeader", c.at, c.ok)>>
        header == VTXFileHeaderAt(file, 0)
        File(bodyparts) ==
            IF bodyparts.st # "ok" THEN bodyparts
            ELSE Done([header |-> header, bodyparts |-> bodyparts.v],
                      bodyparts.log)
    IN  IF ~c.ok THEN Panicked(log0)
        ELSE IF header.version # OPTIMIZED_MODEL_FILE_VERSION
        THEN Failed("VTX version not correct; expected 7", log0)
        ELSE File(read_bodyparts(oc, file, header, log0))

\* a deserialize that unwraps File::open and read_to_end
deserialize_unwrap(oc, file) ==
    IF file.st \in {"missing", "unreadable"} THEN Panicked(<<>>)
    ELSE DeserializeBytes(oc, file)

\* VTXDeserializer::deserialize
deserialize(oc, file) ==
    IF file.st = "missing"
    THEN Failed("Unable to open vtx file from disk", <<>>)
    ELSE IF file.st = "unreadable"
    THEN Failed("Error reading vtx file contents", <<>>)
    ELSE DeserializeBytes(oc, file)

read_vtx_file_from_disk(oc, file) == deserialize(oc, file)

read_vtx_file_by_name(oc, file) == read_vtx_file_from_disk(oc, file)

(***************************************************************************)
(* mdl_reader.rs: the studio-model decoder.  The header is not sliced: the *)
(* buffer's pointer is cast to &MDLFileHeader, so a field past the end of  *)
(* a short buffer is read from whatever follows the allocation.  The      *)
(* outcome u of such a read is not determined by the program: "crash"      *)
(* (the read faults), "zeros" (the bytes are 0) or "magic" (the bytes      *)
(* repeat 49 44 53 54).                                                    *)
(***************************************************************************)
UBOutcomes == {"crash", "zeros", "magic"}

GarbageWord(u) == IF u = "magic" THEN MDL_HEADER ELSE 0

\* 0x49, the first byte of the tag
GarbageByte(u) == IF u = "magic" THEN 73 ELSE 0

MdlWord(file, u, o) ==
    IF o + 4 <= file.len THEN Word(file, o) ELSE GarbageWord(u)

\* header.name as the decoder sees it
NameField(file, u) ==
    [k \in 1..MdlNameLen |->
        IF MdlOffName + k <= file.len THEN file.name[k] ELSE GarbageByte(u)]

\* rposition in place of position: the last null byte
LastNull(bytes) ==
    IF \E k \in 1..Len(bytes) : bytes[k] = 0
    THEN (CHOOSE k \in 1..Len(bytes) :
              bytes[k] = 0 /\ \A j \in (k + 1)..Len(bytes) : bytes[j] # 0) - 1
    ELSE -1

\* header.name.iter().position(|&r| r == 0x0): 0-based, -1 for None
FirstNull(bytes) ==
    IF \E k \in 1..Len(bytes) : bytes[k] = 0
    THEN (CHOOSE k \in 1..Len(bytes) :
              bytes[k] = 0 /\ \A j \in 1..(k - 1) : bytes[j] # 0) - 1
    ELSE -1

IsCont(b) == b >= 128 /\ b <= 191

\* str::from_utf8 on bytes[i..]: well-formed UTF-8
RECURSIVE ValidUtf8(_, _)
ValidUtf8(bytes, i) ==
    IF i > Len(bytes) THEN TRUE
    ELSE LET b == bytes[i]
             has(n) == i + n <= Len(bytes)
         IN  IF b < 128 THEN ValidUtf8(bytes, i + 1)
             ELSE IF b >= 194 /\ b <= 223
             THEN has(1) /\ IsCont(bytes[i + 1]) /\ ValidUtf8(bytes, i + 2)
             ELSE IF b >= 224 /\ b <= 239
             THEN /\ has(2)
                  /\ IsCont(bytes[i + 1]) /\ IsCont(bytes[i + 2])
                  /\ (b = 224 => bytes[i + 1] >= 160)
                  /\ (b = 237 => bytes[i + 1] <= 159)
                  /\ ValidUtf8(bytes, i + 3)
             ELSE IF b >= 240 /\ b <= 244
             THEN /\ has(3)
                  /\ IsCont(bytes[i + 1]) /\ IsCont(bytes[i + 2])
                  /\ IsCont(bytes[i + 3])
                  /\ (b = 240 => bytes[i + 1] >= 144)
                  /\ (b = 244 => bytes[i + 1] <= 143)
                  /\ ValidUtf8(bytes, i + 4)
             ELSE FALSE

\* read_mdl_file_from_disk, lines 254-287: the buffer has been read
DecodeMdlBytes(file, u) ==
    LET crash == u = "crash"
        rid == RawRead("MDLFileHeader.id", 4, file.len)
        id == MdlWord(file, u, 0)
        rname == RawRead("MDLFileHeader.name", MdlOffName + MdlNameLen,
                         file.len)
        name == NameField(file, u)
        pos == FirstNull(name)
        text == SubSeq(name, 1, pos)
        rall == RawRead("MDLFileHeader", SizeofMDLFileHeader, file.len)
        header == [id |-> id,
                   checksum |-> MdlWord(file, u, MdlOffChecksum),
                   bodypart_count |-> MdlWord(file, u, MdlOffBodypartCount),
                   studiohdr2index |->
                       MdlWord(file, u, MdlOffStudiohdr2index)]
    IN  IF rid.oob /\ crash THEN Aborted(<<rid>>)
        ELSE IF id # MDL_HEADER
        THEN Failed("mdl header not correct; expected [0x49, 0x44, 0x53, 0x54]",
                    <<rid>>)
        ELSE IF rname.oob /\ crash THEN Aborted(<<rid, rname>>)
        ELSE IF pos = -1 THEN Panicked(<<rid, rname>>)
        ELSE IF ~ValidUtf8(text, 1)
        THEN Failed("Error converting name to string", <<rid, rname>>)
        ELSE IF rall.oob /\ crash THEN Aborted(<<rid, rname, rall>>)
        ELSE Done([header |-> header, name |-> text], <<rid, rname, rall>>)

read_mdl_file_from_disk(file, u) ==
    IF file.st = "missing"
    THEN Failed("Unable to open mdl file from disk", <<>>)
    ELSE IF file.st = "unreadable"
    THEN Failed("Error reading mdl file contents", <<>>)
    ELSE DecodeMdlBytes(file, u)

\* not in mdl_reader.rs as given; the aggregator calls it like its vtx and
\* vvd counterparts: the path MODEL_PATH + name + ".mdl", then the reader
read_mdl_file_by_name(file, u) == read_mdl_file_from_disk(file, u)

(***************************************************************************)
(* vvd_reader.rs: the vertex-data decoder                                  *)
(***************************************************************************)
VVDFileHeaderAt(buf, at) ==
    [id |-> Word(buf, at),
     version |-> Word(buf, at + 4),
     checksum |-> Word(buf, at + VvdOffChecksum),
     num_lods |-> Word(buf, at + 12),
     num_fixups |-> Word(buf, at + VvdOffNumFixups),
     fixup_table_start |-> Word(buf, at + VvdOffFixupTableStart),
     vertex_data_start |-> Word(buf, at + VvdOffVertexDataStart),
     tangent_data_start |-> Word(buf, at + VvdOffTangentDataStart)]

\* a VVDFileVertex: position at bytes 16..27, normal at 28..39 (the bit
\* patterns of the three floats each)
VVDFileVertexAt(buf, at) ==
    [at |-> at,
     vec_position |-> <<Word(buf, at + 16), Word(buf, at + 20),
                        Word(buf, at + 24)>>,
     vec_normal |-> <<Word(buf, at + 28), Word(buf, at + 32),
                      Word(buf, at + 36)>>]

\* a VVDFileFixupTable record
VVDFileFixupTableAt(buf, at) ==
    [lod |-> Word(buf, at), source_vertex_id |-> Word(buf, at + 4),
     num_vertexes |-> Word(buf, at + 8)]

\* the vertex loop stopping in front of tangent_data_start
VertexLoopStrict(vertex_start_index, header) ==
    vertex_start_index < AsUsize(header.tangent_data_start)

\* the loop condition of the vertex loop
VertexLoopContinues(vertex_start_index, header) ==
    vertex_start_index <= AsUsize(header.tangent_data_start)

\* while vertex_start_index <= tangent_data_start { copy; push; i += 1;
\*   vertex_start_index = vertex_data_start + size * i;
\*   vertex_end_index = vertex_start_index + size }
RECURSIVE ReadVertexLoop(_, _, _, _, _, _)
ReadVertexLoop(oc, buf, header, vertex_start_index, i, acc) ==
    IF acc.st # "ok" \/ ~VertexLoopContinues(vertex_start_index, header) THEN acc
    ELSE LET c == CopyCStruct(oc, SizeofVVDFileVertex, vertex_start_index, 0,
                              buf.len)
             log == Append(acc.log, LogEntry("VVDFileVertex", c.at, c.ok))
             m == CheckedMul(oc, SizeofVVDFileVertex, i + 1)
             next == CheckedAdd(oc, AsUsize(header.vertex_data_start), m.v)
             end == CheckedAdd(oc, next.v, SizeofVVDFileVertex)
         IN  IF ~c.ok THEN Panicked(log)
             ELSE IF ~m.ok \/ ~next.ok \/ ~end.ok THEN Panicked(log)
             ELSE ReadVertexLoop(oc, buf, header, next.v, i + 1,
                      Done(Append(acc.v, VVDFileVertexAt(buf, c.at)), log))

\* read_vvd_file_from_disk, lines 126-187: the buffer has been read
DecodeVvdBytes(oc, file) ==
    LET c == CopyCStruct(oc, SizeofVVDFileHeader, 0, 0, file.len)
        log0 == <<LogEntry("VVDFileHeader", c.at, c.ok)>>
        header == VVDFileHeaderAt(file, 0)
        has_fixups == header.num_fixups > 0
        fixup_start_index == AsUsize(header.fixup_table_start)
        fixup_end_index == CheckedAdd(oc, fixup_start_index,
                                      SizeofVVDFileFixupTable)
        f == CopyCStruct(oc, SizeofVVDFileFixupTable, fixup_start_index, 0,
                         file.len)
        log1 == IF has_fixups /\ fixup_end_index.ok
                THEN Append(log0, LogEntry("VVDFileFixupTable", f.at, f.ok))
                ELSE log0
        fixup_panics ==
            has_fixups /\
               (\/ ~fixup_end_index.ok
                \/ ~f.ok
                \/ ~(fixup_end_index.v <= AsUsize(header.vertex_data_start)))
        vertex_start_index == AsUsize(header.vertex_data_start)
        vertex_end_index == CheckedAdd(oc, vertex_start_index,
                                       SizeofVVDFileVertex)
        File(vs) ==
            IF vs.st # "ok" THEN vs
            ELSE Done([header |-> header, fixup_table |-> "None",
                       vertices |-> vs.v], vs.log)
    IN  IF ~c.ok THEN Panicked(log0)
        ELSE IF header.id # VVD_HEADER
        THEN Failed("vvd header not correct; expected [0x49, 0x44, 0x53, 0x56]",
                    log0)
        ELSE IF fixup_panics THEN Panicked(log1)
        ELSE IF ~vertex_end_index.ok THEN Panicked(log1)
        ELSE File(ReadVertexLoop(oc, file, header, vertex_start_index, 0,
                                 Done(<<>>, log1)))

read_vvd_file_from_disk(oc, file) ==
    IF file.st = "missing"
    THEN Failed("Unable to open vvd file from disk", <<>>)
    ELSE IF file.st = "unreadable"
    THEN Failed("Error reading vvd file contents", <<>>)
    ELSE DecodeVvdBytes(oc, file)

read_vvd_file_by_name(oc, file) == read_vvd_file_from_disk(oc, file)

(***************************************************************************)
(* source_engine.rs: read_source_engine_model, one action per step         *)
(***************************************************************************)
\* a count check that only rejects a studio header declaring too few
BodyPartCountBelow(mdl, vtx) ==
    AsUsize(mdl.header.bodypart_count) < Len(vtx.bodyparts)

\* mdl_file.header.bodypart_count as usize != vtx_file.bodyparts.len()
BodyPartCountDiffers(mdl, vtx) ==
    AsUsize(mdl.header.bodypart_count) # Len(vtx.bodyparts)

\* a checksum check that forgets the mesh-topology file
ChecksumDiffersMdlVvd(mdl, vtx, vvd) ==
    mdl.header.checksum # vvd.header.checksum

ChecksumDiffers(mdl, vtx, vvd) ==
    \/ mdl.header.checksum # vvd.header.checksum
    \/ vvd.header.checksum # vtx.header.checksum

\* the two projections of the flat vertex array
\* the position list built back to front
PositionsReversed(vvd) ==
    [n \in 1..Len(vvd.vertices) |->
        [position |-> vvd.vertices[Len(vvd.vertices) + 1 - n].vec_position]]

Positions(vvd) ==
    [n \in 1..Len(vvd.vertices) |-> [position |-> vvd.vertices[n].vec_position]]

Normals(vvd) ==
    [n \in 1..Len(vvd.vertices) |-> [position |-> vvd.vertices[n].vec_normal]]

\* the composition with the two checks in the other order
ComposeChecksumFirst(mdl, vtx, vvd) ==
    IF ChecksumDiffers(mdl, vtx, vvd)
    THEN Failed("Model checksum mismatch", <<>>)
    ELSE IF BodyPartCountDiffers(mdl, vtx)
    THEN Failed("Unable to load Source engine model", <<>>)
    ELSE Done([mdl_file |-> mdl, vtx_file |-> vtx, vvd_file |-> vvd,
               vertices |-> Positions(vvd), normals |-> Normals(vvd)], <<>>)

\* lines 92-134: the checks after the three decodes, and the composition
Compose(mdl, vtx, vvd) ==
    IF BodyPartCountDiffers(mdl, vtx)
    THEN Failed("Unable to load Source engine model", <<>>)
    ELSE IF ChecksumDiffers(mdl, vtx, vvd)
    THEN Failed("Model checksum mismatch", <<>>)
    ELSE Done([mdl_file |-> mdl, vtx_file |-> vtx, vvd_file |-> vvd,
               vertices |-> Positions(vvd), normals |-> Normals(vvd)], <<>>)

\* the `?` operator: an Err is boxed and returned; a panic or an abort of
\* the callee is the caller's
Propagate(r) == [st |-> r.st, msg |-> r.msg, v |-> <<>>, log |-> <<>>]

ReadMdl ==
    /\ pc = "mdl"
    /\ \E u \in UBOutcomes :
         /\ mdl_file' = read_mdl_file_by_name(mdl_disk, u)
         /\ IF mdl_file'.st = "ok"
            THEN pc' = "vtx" /\ UNCHANGED result
            ELSE pc' = "done" /\ result' = Propagate(mdl_file')
    /\ UNCHANGED <<mdl_disk, vtx_disk, vvd_disk, overflow_checks,
                   vtx_file, vvd_file>>
    /\ UNCHANGED aside

ReadVtx ==
    /\ pc = "vtx"
    /\ vtx_file' = read_vtx_file_by_name(overflow_checks, vtx_disk)
    /\ IF vtx_file'.st = "ok"
       THEN pc' = "vvd" /\ UNCHANGED result
       ELSE pc' = "done" /\ result' = Propagate(vtx_file')
    /\ UNCHANGED <<mdl_disk, vtx_disk, vvd_disk, overflow_checks,
                   mdl_file, vvd_file>>
    /\ UNCHANGED aside

ReadVvd ==
    /\ pc = "vvd"
    /\ vvd_file' = read_vvd_file_by_name(overflow_checks, vvd_disk)
    /\ IF vvd_file'.st = "ok"
       THEN pc' = "check" /\ UNCHANGED result
       ELSE pc' = "done" /\ result' = Propagate(vvd_file')
    /\ UNCHANGED <<mdl_disk, vtx_disk, vvd_disk, overflow_checks,
                   mdl_file, vtx_file>>
    /\ UNCHANGED aside

Validate ==
    /\ pc = "check"
    /\ result' = Compose(mdl_file.v, vtx_file.v, vvd_file.v)
    /\ pc' = "done"
    /\ UNCHANGED <<mdl_disk, vtx_disk, vvd_disk, overflow_checks,
                   mdl_file, vtx_file, vvd_file>>
    /\ UNCHANGED aside

Next == ReadMdl \/ ReadVtx \/ ReadVvd \/ Validate

\* what a call hands back to its caller
Handed(r) == [st |-> r.st, msg |-> r.msg, v |-> r.v]

NoRun == [mdl |-> Handed(NoOutcome), vtx |-> Handed(NoOutcome),
          vvd |-> Handed(NoOutcome), result |-> Handed(NoOutcome)]

\* the caller loads the same model a second time
LoadAgain ==
    /\ pc = "done"
    /\ first = NoRun
    /\ first' = [mdl |-> Handed(mdl_file), vtx |-> Handed(vtx_file),
                 vvd |-> Handed(vvd_file), result |-> Handed(result)]
    /\ pc' = "mdl"
    /\ mdl_file' = NoOutcome
    /\ vtx_file' = NoOutcome
    /\ vvd_file' = NoOutcome
    /\ result' = NoOutcome
    /\ UNCHANGED <<mdl_disk, vtx_disk, vvd_disk, overflow_checks>>
    /\ UNCHANGED <<geoVars, mapVars, restVars>>

NextAgain == Next \/ LoadAgain

(***************************************************************************)
(* geometry.rs: Point(u32, u32), BoundingBox(lower left, upper right) and  *)
(* the containment queries; entities.rs: a Zone asked about an entity.     *)
(***************************************************************************)
x(p) == p[1]
y(p) == p[2]

\* the comparison of above made non-strict
above_or_level(self, p) == y(self) >= y(p)

above(self, p) == y(self) > y(p)
below(self, p) == y(self) < y(p)
right_of(self, p) == x(self) > x(p)
left_of(self, p) == x(self) < x(p)

lower_left(bb) == bb[1]
upper_right(bb) == bb[2]

\* impl Polygon<u32> for BoundingBox
contains(self, p) ==
    /\ above(p, lower_left(self))
    /\ right_of(p, lower_left(self))
    /\ below(p, upper_right(self))
    /\ left_of(p, upper_right(self))

inside(self, poly) == contains(poly, self)

\* Zone::entity_inside: the zone's box, the entity's location
entity_inside(bounding_box, location) == inside(location, bounding_box)

NoAnswer == [q \in {} |-> FALSE]

\* a part of the program that is not running
Off == [pc |-> "off"]
RestIdle == vloop = Off /\ cacher = Off /\ app = Off /\ hal = Off

Answered(q, v) ==
    [n \in DOMAIN answer \cup {q} |-> IF n = q THEN v ELSE answer[n]]

CallContains ==
    /\ "contains" \notin DOMAIN answer
    /\ answer' = Answered("contains", contains(bbox, point))
    /\ UNCHANGED <<point, bbox, loaderVars, mapVars, restVars>>

CallInside ==
    /\ "inside" \notin DOMAIN answer
    /\ answer' = Answered("inside", inside(point, bbox))
    /\ UNCHANGED <<point, bbox, loaderVars, mapVars, restVars>>

CallEntityInside ==
    /\ "entity_inside" \notin DOMAIN answer
    /\ answer' = Answered("entity_inside", entity_inside(bbox, point))
    /\ UNCHANGED <<point, bbox, loaderVars, mapVars, restVars>>

NextGeo == CallContains \/ CallInside \/ CallEntityInside

(***************************************************************************)
(* game.rs, game/map.rs: the default map and its file.  A GameMap is a     *)
(* name (its bytes) and a BoundingBox; the file holds its encoding: the    *)
(* length of the name, the bytes of the name, the four coordinates.        *)
(***************************************************************************)
\* "Default Map"
DEFAULT_MAP_NAME == <<68, 101, 102, 97, 117, 108, 116, 32, 77, 97, 112>>
DEFAULT_MAP_DIMENSIONS == <<<<0, 0>>, <<100, 100>>>>

DefaultMap == [name |-> DEFAULT_MAP_NAME, dimensions |-> DEFAULT_MAP_DIMENSIONS]

serialize(map) ==
    <<Len(map.name)>> \o map.name
        \o <<x(lower_left(map.dimensions)), y(lower_left(map.dimensions)),
             x(upper_right(map.dimensions)), y(upper_right(map.dimensions))>>

\* the length prefix, the text, then four u32; a short buffer or ill-formed
\* text is an Err
deserialize_map(data) ==
    IF Len(data) < 1 THEN Failed("io error: unexpected end of file", <<>>)
    ELSE LET n == data[1]
         IN  IF Len(data) < 1 + n + 4
             THEN Failed("io error: unexpected end of file", <<>>)
             ELSE IF ~ValidUtf8(SubSeq(data, 2, 1 + n), 1)
             THEN Failed("string is not valid utf8", <<>>)
             ELSE Done([name |-> SubSeq(data, 2, 1 + n),
                        dimensions |-> <<<<data[n + 2], data[n + 3]>>,
                                         <<data[n + 4], data[n + 5]>>>>],
                       <<>>)

NoMapFile == [st |-> "missing", data |-> <<>>]
MapFile(data) == [st |-> "ok", data |-> data]

\* a recreate_default_map that returns the map without writing the file
recreate_unwritten(disk, dir) ==
    IF dir = "uncreatable"
    THEN [out |-> Failed("create failed", <<>>), disk |-> disk]
    ELSE [out |-> Done(DefaultMap, <<>>), disk |-> disk]

\* recreate_default_map: the outcome and the file it leaves
recreate_default_map(disk, dir) ==
    IF dir = "uncreatable"
    THEN [out |-> Failed("create failed", <<>>), disk |-> disk]
    ELSE IF dir = "unwritable"
    THEN [out |-> Failed("write failed", <<>>), disk |-> MapFile(<<>>)]
    ELSE [out |-> Done(DefaultMap, <<>>), disk |-> MapFile(serialize(DefaultMap))]

get_default_map(disk, dir) ==
    IF disk.st = "missing" THEN recreate_default_map(disk, dir)
    ELSE IF disk.st = "unreadable"
    THEN [out |-> Failed("read failed", <<>>), disk |-> disk]
    ELSE LET Loaded(decoded) ==
                 IF decoded.st = "ok" THEN [out |-> decoded, disk |-> disk]
                 ELSE recreate_default_map(disk, dir)
         IN  Loaded(deserialize_map(disk.data))

GetDefaultMap ==
    /\ map_call = "none"
    /\ map_call' = "get_default_map"
    /\ map_result' = get_default_map(map_disk, map_dir).out
    /\ map_disk' = get_default_map(map_disk, map_dir).disk
    /\ UNCHANGED <<map_dir, loaderVars, geoVars, restVars>>

RecreateDefaultMap ==
    /\ map_call = "none"
    /\ map_call' = "recreate_default_map"
    /\ map_result' = recreate_default_map(map_disk, map_dir).out
    /\ map_disk' = recreate_default_map(map_disk, map_dir).disk
    /\ UNCHANGED <<map_dir, loaderVars, geoVars, restVars>>

NextMap == GetDefaultMap \/ RecreateDefaultMap

\* a second get_default_map call, right after one that returned and with
\* the file as that call left it
GetDefaultMapAgain ==
    /\ map_call = "get_default_map"
    /\ map_call' = "get_default_map again"
    /\ map_result' = get_default_map(map_disk, map_dir).out
    /\ map_disk' = get_default_map(map_disk, map_dir).disk
    /\ UNCHANGED <<map_dir, loaderVars, geoVars, restVars>>

NextMapAgain == NextMap \/ GetDefaultMapAgain

(***************************************************************************)
(* vvd_reader.rs, lines 164-181: the vertex loop of                        *)
(* read_vvd_file_from_disk, one iteration a step.  vloop holds the header  *)
(* fields the loop reads, the buffer length, the loop's variables and n,   *)
(* the length of `vertices`.                                               *)
(***************************************************************************)
VertexLoopStart(header, len) ==
    [pc |-> "loop", header |-> header, len |-> len,
     vertex_start_index |-> AsUsize(header.vertex_data_start), i |-> 0, n |-> 0]

\* one pass through the loop body: slice, push, step
VertexLoopBody ==
    /\ vloop.pc = "loop"
    /\ VertexLoopContinues(vloop.vertex_start_index, vloop.header)
    /\ LET c == CopyCStruct(overflow_checks, SizeofVVDFileVertex,
                            vloop.vertex_start_index, 0, vloop.len)
           m == CheckedMul(overflow_checks, SizeofVVDFileVertex, vloop.i + 1)
           next == CheckedAdd(overflow_checks,
                              AsUsize(vloop.header.vertex_data_start), m.v)
           end == CheckedAdd(overflow_checks, next.v, SizeofVVDFileVertex)
       IN  vloop' = IF ~c.ok \/ ~m.ok \/ ~next.ok \/ ~end.ok
                    THEN [vloop EXCEPT !.pc = "panic"]
                    ELSE [vloop EXCEPT !.n = @ + 1, !.i = @ + 1,
                                       !.vertex_start_index = next.v]
    /\ UNCHANGED <<loaderVars, geoVars, mapVars, cacher, app, hal>>

\* the loop condition is false: Ok(VVDFile { .. vertices })
VertexLoopExit ==
    /\ vloop.pc = "loop"
    /\ ~VertexLoopContinues(vloop.vertex_start_index, vloop.header)
    /\ vloop' = [vloop EXCEPT !.pc = "done"]
    /\ UNCHANGED <<loaderVars, geoVars, mapVars, cacher, app, hal>>

NextVertexLoop == VertexLoopBody \/ VertexLoopExit

(***************************************************************************)
(* game.rs, lines 51-85: Cacher, a closure and a HashMap from arguments to *)
(* the values computed for them.  cacher holds the closure's name, the     *)
(* map, the argument and the result of the last call of value, how often   *)
(* the closure ran for each argument, and the number of calls made.        *)
(***************************************************************************)
\* the closures of the tests: |a| a and |_a| 1, and a closure that is
\* neither the identity nor constant
Calculations == {"identity", "constant", "successor"}

calculation(f, arg) ==
    IF f = "identity" THEN arg ELSE IF f = "constant" THEN 1 ELSE arg + 1

\* Cacher::new
CacherNew(f) ==
    [pc |-> "on", calculation |-> f, values |-> [a \in {} |-> 0],
     arg |-> 0, ret |-> 0, ran |-> [a \in {} |-> 0], calls |-> 0]

\* values.insert(arg, v)
Insert(values, arg, v) ==
    [a \in DOMAIN values \cup {arg} |-> IF a = arg THEN v ELSE values[a]]

\* a Cacher with one slot: whatever is cached is returned
value_of_any(self, arg) ==
    IF DOMAIN self.values # {}
    THEN [self EXCEPT !.arg = arg, !.calls = @ + 1,
                      !.ret = self.values[CHOOSE a \in DOMAIN self.values : TRUE]]
    ELSE [self EXCEPT !.arg = arg, !.calls = @ + 1,
                      !.ret = calculation(self.calculation, arg),
                      !.values = Insert(@, arg, calculation(self.calculation, arg)),
                      !.ran = Insert(@, arg, 1)]

\* a Cacher that computes and stores again on every call
value_computed(self, arg) ==
    [self EXCEPT !.arg = arg, !.calls = @ + 1,
                 !.ret = calculation(self.calculation, arg),
                 !.values = Insert(@, arg, calculation(self.calculation, arg)),
                 !.ran = Insert(@, arg, IF arg \in DOMAIN @ THEN @[arg] + 1
                                        ELSE 1)]

\* Cacher::value
value(self, arg) ==
    IF arg \in DOMAIN self.values
    THEN [self EXCEPT !.arg = arg, !.calls = @ + 1, !.ret = self.values[arg]]
    ELSE [self EXCEPT !.arg = arg, !.calls = @ + 1,
                      !.ret = calculation(self.calculation, arg),
                      !.values = Insert(@, arg, calculation(self.calculation, arg)),
                      !.ran = Insert(@, arg, IF arg \in DOMAIN @ THEN @[arg] + 1
                                             ELSE 1)]

MaxArg == 3
MaxCalls == 4

CallValue ==
    /\ cacher.pc = "on"
    /\ cacher.calls < MaxCalls
    /\ \E arg \in 0..MaxArg : cacher' = value(cacher, arg)
    /\ UNCHANGED <<loaderVars, geoVars, mapVars, vloop, app, hal>>

NextCacher == CallValue

(***************************************************************************)
(* graphics.rs: the frame counter of HalState and the main loop of the     *)
(* application.  hal holds the fields of HalState that draw_triangle_frame *)
(* reads and writes: frames_in_flight (the number of semaphores and of     *)
(* fences), current_frame, and the number of images of the swapchain (the  *)
(* number of framebuffers and of command buffers).  app holds the position *)
(* of main_loop, the inputs of its last poll and how often it has polled,  *)
(* rendered and rebuilt the graphics state.                                *)
(***************************************************************************)
\* HalState::new, lines 299-303 and 489-490: image_count is at most 3
MaxFramesInFlight == 3

HalStateNew(frames_in_flight, images) ==
    [pc |-> "on", frames_in_flight |-> frames_in_flight, images |-> images,
     current_frame |-> 0]

\* the steps of draw_triangle_frame that end it with `?` or map_err, in order
FrameSteps ==
    <<"acquire_image", "wait_for_fence", "reset_fence",
      "acquire_mapping_writer", "release_mapping_writer", "present">>

FrameError(step) ==
    CASE step = "acquire_image" -> "Couldn't acquire an image from the swapchain!"
      [] step = "wait_for_fence" -> "Failed to wait on the fence!"
      [] step = "reset_fence" -> "Couldn't reset the fence!"
      [] step = "acquire_mapping_writer" -> "Failed to acquire a memory writer!"
      [] step = "release_mapping_writer" -> "Couldn't release the mapping writer!"
      [] step = "present" -> "Failed to present into the swapchain!"

FrameOk == [st |-> "ok", msg |-> ""]
FrameErr(msg) == [st |-> "err", msg |-> msg]
FramePanic == [st |-> "panic", msg |-> "index out of bounds"]

\* the outcome of the steps that follow the advance of current_frame:
\* failing is the step that fails ("none": no step does), image_index the
\* image that acquire_image hands out
FrameOutcome(self, image_index, failing) ==
    IF failing = "acquire_image" THEN FrameErr(FrameError(failing))
    ELSE IF image_index >= self.frames_in_flight THEN FramePanic
    ELSE IF failing # "none" THEN FrameErr(FrameError(failing))
    ELSE FrameOk

\* a draw_triangle_frame that advances current_frame after the last step
draw_triangle_frame_advancing_last(self, image_index, failing) ==
    IF self.current_frame >= self.frames_in_flight
    THEN [self |-> self, result |-> FramePanic]
    ELSE [self |-> IF FrameOutcome(self, image_index, failing) = FrameOk
                   THEN [self EXCEPT !.current_frame =
                                        (@ + 1) % self.frames_in_flight]
                   ELSE self,
          result |-> FrameOutcome(self, image_index, failing)]

\* draw_triangle_frame: the semaphores of current_frame are taken,
\* current_frame is advanced, then the steps run
draw_triangle_frame(self, image_index, failing) ==
    IF self.current_frame >= self.frames_in_flight
    THEN [self |-> self, result |-> FramePanic]
    ELSE [self |-> [self EXCEPT !.current_frame =
                                   (@ + 1) % self.frames_in_flight],
          result |-> FrameOutcome(self, image_index, failing)]

EventKinds == {"CloseRequested", "Resized", "CursorMoved"}

\* UserInput::poll_events_loop over the events that were pending
poll_events_loop(events) ==
    [end_requested |-> "CloseRequested" \in events,
     new_frame_size |-> "Resized" \in events,
     new_mouse_position |-> "CursorMoved" \in events]

\* a main_loop that never takes the break
never_breaks(inputs) == FALSE

\* main_loop: `if inputs.end_requested { break; }`
breaks(inputs) == inputs.end_requested

MaxPolls == 4
MaxExtraImages == 1

\* the start of main_loop, before the first poll
MainLoopStart ==
    [pc |-> "poll", inputs |-> poll_events_loop({}), polls |-> 0,
     renders |-> 0, rebuilds |-> 0]

\* let inputs = UserInput::poll_events_loop(..); break if end_requested
PollEventsLoop ==
    /\ app.pc = "poll"
    /\ app.polls < MaxPolls
    /\ \E events \in SUBSET EventKinds :
          app' = [app EXCEPT !.inputs = poll_events_loop(events),
                             !.polls = @ + 1,
                             !.pc = IF breaks(poll_events_loop(events))
                                    THEN "exited" ELSE "render"]
    /\ UNCHANGED <<loaderVars, geoVars, mapVars, vloop, cacher, hal>>

\* do_the_render: one draw_triangle_frame on the graphics state
DoTheRender ==
    /\ app.pc = "render"
    /\ \E image_index \in 0..(hal.images - 1) :
       \E failing \in {"none"} \cup {FrameSteps[k] : k \in DOMAIN FrameSteps} :
          LET Drawn(d) ==
                  /\ hal' = d.self
                  /\ app' = [app EXCEPT !.renders = @ + 1,
                                        !.pc = CASE d.result.st = "ok" -> "poll"
                                                 [] d.result.st = "err" -> "restart"
                                                 [] OTHER -> "panic"]
          IN  Drawn(draw_triangle_frame(hal, image_index, failing))
    /\ UNCHANGED <<loaderVars, geoVars, mapVars, vloop, cacher>>

\* the Err arm of main_loop: HalState::new, and panic!(e) when it fails
RestartHalState ==
    /\ app.pc = "restart"
    /\ \/ /\ \E frames_in_flight \in 1..MaxFramesInFlight :
             \E extra \in 0..MaxExtraImages :
                hal' = HalStateNew(frames_in_flight, frames_in_flight + extra)
          /\ app' = [app EXCEPT !.rebuilds = @ + 1, !.pc = "poll"]
       \/ /\ app' = [app EXCEPT !.pc = "panic"]
          /\ hal' = hal
    /\ UNCHANGED <<loaderVars, geoVars, mapVars, vloop, cacher>>

NextApp == PollEventsLoop \/ DoTheRender \/ RestartHalState

GeoIdle == point = <<0, 0>> /\ bbox = <<<<0, 0>>, <<0, 0>>>> /\ answer = NoAnswer

MapIdle ==
    /\ map_disk = NoMapFile
    /\ map_dir = "writable"
    /\ map_call = "none"
    /\ map_result = NoOutcome

(***************************************************************************)
(* The files the model is run on.  BuildVtx, BuildVvd and BuildMdl lay out *)
(* well-formed files with the record sizes above: every array is           *)
(* contiguous, every offset is relative to the start of the record that    *)
(* declares it, and every referenced record lies inside the file.          *)
(* Corrupt overwrites one 32-bit word, Truncate cuts the file.             *)
(***************************************************************************)
MaxCount == 2
MaxVerts == 3
MaxFixups == 1

Checksums == {11, 22}
BadTag == MDL_HEADER + 1
BadVersion == OPTIMIZED_MODEL_FILE_VERSION - 1

FunOf(pairs) ==
    [o \in {p[1] : p \in pairs} |-> (CHOOSE p \in pairs : p[1] = o)[2]]

MissingFile == [st |-> "missing", len |-> 0, w |-> <<>>, name |-> <<>>]
UnreadableFile == [st |-> "unreadable", len |-> 0, w |-> <<>>, name |-> <<>>]

Truncate(file, len) ==
    [file EXCEPT !.len = len,
                 !.w = [o \in {a \in DOMAIN file.w : a + 4 <= len} |-> file.w[o]]]

Corrupt(file, off, val) ==
    [file EXCEPT !.w = [o \in DOMAIN file.w \cup {off} |->
                           IF o = off THEN val ELSE file.w[o]]]

\* a shape gives the element count of every array of a mesh-topology file
Shape(nbp, nm, nl, nme, nsg, nv, ni, ns) ==
    [nbp |-> nbp, nm |-> nm, nl |-> nl, nme |-> nme, nsg |-> nsg,
     nv |-> nv, ni |-> ni, ns |-> ns]

NumModels(s) == s.nbp * s.nm
NumLods(s) == NumModels(s) * s.nl
NumMeshes(s) == NumLods(s) * s.nme
NumStripGroups(s) == NumMeshes(s) * s.nsg

\* start of the region holding all arrays of one level
VtxBP0 == SizeofVTXFileHeader
VtxM0(s) == VtxBP0 + s.nbp * SizeofVTXFileBodyPartHeader
VtxL0(s) == VtxM0(s) + NumModels(s) * SizeofVTXFileModelHeader
VtxME0(s) == VtxL0(s) + NumLods(s) * SizeofVTXFileModelLODHeader
VtxSG0(s) == VtxME0(s) + NumMeshes(s) * SizeofVTXFileMeshHeader
VtxV0(s) == VtxSG0(s) + NumStripGroups(s) * SizeofVTXFileStripGroupHeader
VtxI0(s) == VtxV0(s) + NumStripGroups(s) * s.nv * SizeofVTXFileVertex
VtxS0(s) == VtxI0(s) + NumStripGroups(s) * s.ni * SizeofVTXFileIndex
VtxEnd(s) == VtxS0(s) + NumStripGroups(s) * s.ns * SizeofVTXFileStripHeader

\* absolute offset of element a of a level (a counts across all parents)
BodyPartAt(a) == VtxBP0 + a * SizeofVTXFileBodyPartHeader
ModelAt(s, a) == VtxM0(s) + a * SizeofVTXFileModelHeader
LodAt(s, a) == VtxL0(s) + a * SizeofVTXFileModelLODHeader
MeshAt(s, a) == VtxME0(s) + a * SizeofVTXFileMeshHeader
StripGroupAt(s, a) == VtxSG0(s) + a * SizeofVTXFileStripGroupHeader
VertsAt(s, a) == VtxV0(s) + a * s.nv * SizeofVTXFileVertex
IndicesAt(s, a) == VtxI0(s) + a * s.ni * SizeofVTXFileIndex
StripsAt(s, a) == VtxS0(s) + a * s.ns * SizeofVTXFileStripHeader

VtxWords(s, c, version) ==
    {<<0, version>>, <<VtxOffChecksum, c>>, <<VtxOffNumBodyParts, s.nbp>>,
     <<VtxOffBodyPartOffset, VtxBP0>>}
    \cup UNION {{<<BodyPartAt(a), s.nm>>,
                 <<BodyPartAt(a) + 4, ModelAt(s, a * s.nm) - BodyPartAt(a)>>} :
                a \in 0..(s.nbp - 1)}
    \cup UNION {{<<ModelAt(s, a), s.nl>>,
                 <<ModelAt(s, a) + 4, LodAt(s, a * s.nl) - ModelAt(s, a)>>} :
                a \in 0..(NumModels(s) - 1)}
    \cup UNION {{<<LodAt(s, a), s.nme>>,
                 <<LodAt(s, a) + 4, MeshAt(s, a * s.nme) - LodAt(s, a)>>} :
                a \in 0..(NumLods(s) - 1)}
    \cup UNION {{<<MeshAt(s, a), s.nsg>>,
                 <<MeshAt(s, a) + 4,
                   StripGroupAt(s, a * s.nsg) - MeshAt(s, a)>>} :
                a \in 0..(NumMeshes(s) - 1)}
    \cup UNION {{<<StripGroupAt(s, a), s.nv>>,
                 <<StripGroupAt(s, a) + 4, VertsAt(s, a) - StripGroupAt(s, a)>>,
                 <<StripGroupAt(s, a) + 8, s.ni>>,
                 <<StripGroupAt(s, a) + 12,
                   IndicesAt(s, a) - StripGroupAt(s, a)>>,
                 <<StripGroupAt(s, a) + 16, s.ns>>,
                 <<StripGroupAt(s, a) + 20,
                   StripsAt(s, a) - StripGroupAt(s, a)>>} :
                a \in 0..(NumStripGroups(s) - 1)}

BuildVtx(s, c, version) ==
    [st |-> "ok", len |-> VtxEnd(s), w |-> FunOf(VtxWords(s, c, version)),
     name |-> <<>>]

\* a vertex-data file: header, nfix fixups, nverts vertices, then 16 bytes
\* of tangent data per vertex
VvdVertexStart(nfix) == SizeofVVDFileHeader + nfix * SizeofVVDFileFixupTable
VvdTangentStart(nfix, nverts) ==
    VvdVertexStart(nfix) + nverts * SizeofVVDFileVertex
VvdEnd(nfix, nverts) == VvdTangentStart(nfix, nverts) + nverts * 16

VvdWords(id, c, nfix, nverts) ==
    {<<0, id>>, <<4, 4>>, <<VvdOffChecksum, c>>, <<12, 1>>, <<16, nverts>>,
     <<VvdOffNumFixups, nfix>>,
     <<VvdOffFixupTableStart, SizeofVVDFileHeader>>,
     <<VvdOffVertexDataStart, VvdVertexStart(nfix)>>,
     <<VvdOffTangentDataStart, VvdTangentStart(nfix, nverts)>>}
    \cup UNION {{<<VvdVertexStart(nfix) + n * SizeofVVDFileVertex + 16 + 4 * k,
                   100 * (n + 1) + k>> : k \in 0..5} : n \in 0..(nverts - 1)}
    \cup {<<VvdTangentStart(nfix, nverts) + 4 * k, 900 + k>> :
          k \in 0..(4 * nverts - 1)}
    \cup {<<SizeofVVDFileHeader + n * SizeofVVDFileFixupTable + 8, nverts>> :
          n \in 0..(nfix - 1)}

BuildVvd(id, c, nfix, nverts) ==
    [st |-> "ok", len |-> VvdEnd(nfix, nverts),
     w |-> FunOf(VvdWords(id, c, nfix, nverts)), name |-> <<>>]

\* the 64-byte name field: the bytes of prefix, then fill
NameBytes(prefix, fill) ==
    [k \in 1..MdlNameLen |-> IF k <= Len(prefix) THEN prefix[k] ELSE fill]

\* "p/a.mdl", padded with null bytes
ValidName == NameBytes(<<112, 47, 97, 46, 109, 100, 108>>, 0)

\* name fields: empty, a byte after the terminator, two-byte text, a stray
\* byte 0xFF, a cut two-byte sequence, an overlong form, no terminator
Names ==
    {ValidName,
     NameBytes(<<>>, 0),
     NameBytes(<<97, 0, 98>>, 0),
     NameBytes(<<195, 169>>, 0),
     NameBytes(<<97, 255>>, 0),
     NameBytes(<<195>>, 0),
     NameBytes(<<224, 128, 128>>, 0),
     NameBytes(<<>>, 65)}

BuildMdl(id, c, bpc, name, len) ==
    Truncate([st |-> "ok", len |-> len,
              w |-> FunOf({<<0, id>>, <<4, 49>>, <<MdlOffChecksum, c>>,
                           <<MdlOffBodypartCount, bpc>>}),
              name |-> name], len)

Ones == Shape(1, 1, 1, 1, 1, 1, 1, 1)

\* the files of the aggregate specification
MdlFiles ==
    {MissingFile, UnreadableFile}
    \cup {BuildMdl(id, c, bpc, ValidName, SizeofMDLFileHeader) :
          id \in {MDL_HEADER, BadTag}, c \in Checksums, bpc \in -1..MaxCount}
    \cup {BuildMdl(id, 11, 1, ValidName, len) :
          id \in {MDL_HEADER, BadTag}, len \in {2, 100}}
    \cup {BuildMdl(MDL_HEADER, 11, 1, name, SizeofMDLFileHeader) :
          name \in Names}

VtxFiles ==
    {MissingFile, UnreadableFile}
    \cup {BuildVtx([Ones EXCEPT !.nbp = n], c, v) :
          n \in 0..MaxCount, c \in Checksums,
          v \in {OPTIMIZED_MODEL_FILE_VERSION, BadVersion}}
    \cup {Truncate(BuildVtx(Ones, 11, v), len) :
          v \in {OPTIMIZED_MODEL_FILE_VERSION, BadVersion}, len \in {20, 40}}

VvdFiles ==
    {MissingFile, UnreadableFile}
    \cup {BuildVvd(id, c, nfix, n) :
          id \in {VVD_HEADER, BadTag}, c \in Checksums,
          nfix \in 0..MaxFixups, n \in 0..MaxVerts}
    \cup {Truncate(BuildVvd(id, 11, 0, MaxVerts), len) :
          id \in {VVD_HEADER, BadTag}, len \in {40, 100}}

\* the files of the mesh-topology specification: every shape that differs
\* from Ones in one count, the shape with two elements everywhere, Ones cut
\* inside each of its records, and Ones with one count or offset of the
\* first record of a level overwritten
Levels == {"nbp", "nm", "nl", "nme", "nsg", "nv", "ni", "ns"}
Twos == Shape(2, 2, 2, 2, 2, 2, 2, 2)
VtxShapes == {[Ones EXCEPT ![f] = n] : f \in Levels, n \in 0..MaxCount}
                 \cup {Twos}
VtxCuts == {20, 40, 48, 60, 72, 100, 110, 115, 140}
CorruptValues == {-8, 0, 8, 4000}
FirstFields(s) ==
    {VtxOffNumBodyParts, VtxOffBodyPartOffset,
     BodyPartAt(0), BodyPartAt(0) + 4, ModelAt(s, 0), ModelAt(s, 0) + 4,
     LodAt(s, 0), LodAt(s, 0) + 4, MeshAt(s, 0), MeshAt(s, 0) + 4}
    \cup {StripGroupAt(s, 0) + 4 * k : k \in 0..5}

VtxRichFiles ==
    {MissingFile}
    \cup {BuildVtx(s, 11, OPTIMIZED_MODEL_FILE_VERSION) : s \in VtxShapes}
    \cup {Truncate(BuildVtx(Ones, 11, v), len) :
          v \in {OPTIMIZED_MODEL_FILE_VERSION, BadVersion}, len \in VtxCuts}
    \cup {Corrupt(BuildVtx(Ones, 11, OPTIMIZED_MODEL_FILE_VERSION), o, val) :
          o \in FirstFields(Ones), val \in CorruptValues}

Init ==
    /\ mdl_disk \in MdlFiles
    /\ vtx_disk \in VtxFiles
    /\ vvd_disk \in VvdFiles
    /\ overflow_checks \in BOOLEAN
    /\ pc = "mdl"
    /\ mdl_file = NoOutcome
    /\ vtx_file = NoOutcome
    /\ vvd_file = NoOutcome
    /\ result = NoOutcome
    /\ first = NoRun
    /\ GeoIdle
    /\ MapIdle
    /\ RestIdle

Spec == Init /\ [][Next]_vars

\* the mesh-topology specification: the other two files are well formed
InitVtx ==
    /\ mdl_disk = BuildMdl(MDL_HEADER, 11, 1, ValidName, SizeofMDLFileHeader)
    /\ vtx_disk \in VtxRichFiles
    /\ vvd_disk = BuildVvd(VVD_HEADER, 11, 0, MaxVerts)
    /\ overflow_checks \in BOOLEAN
    /\ pc = "mdl"
    /\ mdl_file = NoOutcome
    /\ vtx_file = NoOutcome
    /\ vvd_file = NoOutcome
    /\ result = NoOutcome
    /\ first = NoRun
    /\ GeoIdle
    /\ MapIdle
    /\ RestIdle

SpecVtx == InitVtx /\ [][Next]_vars

\* a vertex-data file whose fixup entry (64..76) runs into the vertex block
OverlappingFixup ==
    Corrupt(BuildVvd(VVD_HEADER, 11, 1, MaxVerts), VvdOffVertexDataStart,
            SizeofVVDFileHeader)

\* the specification of whole files: no file is cut, every offset and count
\* refers to records inside the file, and the vertex block is followed by
\* at least one record's length of tangent data
InitWhole ==
    /\ mdl_disk \in {BuildMdl(MDL_HEADER, c, 1, name, SizeofMDLFileHeader) :
                        c \in Checksums, name \in Names}
    /\ vtx_disk \in {BuildVtx([Ones EXCEPT !.nbp = n], c,
                               OPTIMIZED_MODEL_FILE_VERSION) :
                        n \in 1..MaxCount, c \in Checksums}
    /\ vvd_disk \in {BuildVvd(VVD_HEADER, c, nfix, MaxVerts) :
                        c \in Checksums, nfix \in 0..MaxFixups}
                      \cup {OverlappingFixup}
    /\ overflow_checks \in BOOLEAN
    /\ pc = "mdl"
    /\ mdl_file = NoOutcome
    /\ vtx_file = NoOutcome
    /\ vvd_file = NoOutcome
    /\ result = NoOutcome
    /\ first = NoRun
    /\ GeoIdle
    /\ MapIdle
    /\ RestIdle

SpecWhole == InitWhole /\ [][Next]_vars

\* the specification of repeated loads: every studio-model file of the
\* aggregate specification, with whole or missing companions
InitAgain ==
    /\ mdl_disk \in MdlFiles
    /\ vtx_disk \in {MissingFile}
                      \cup {BuildVtx([Ones EXCEPT !.nbp = n], c,
                                     OPTIMIZED_MODEL_FILE_VERSION) :
                            n \in 1..MaxCount, c \in Checksums}
    /\ vvd_disk \in {MissingFile}
                      \cup {BuildVvd(VVD_HEADER, c, nfix, MaxVerts) :
                            c \in Checksums, nfix \in 0..MaxFixups}
    /\ overflow_checks \in BOOLEAN
    /\ pc = "mdl"
    /\ mdl_file = NoOutcome
    /\ vtx_file = NoOutcome
    /\ vvd_file = NoOutcome
    /\ result = NoOutcome
    /\ first = NoRun
    /\ GeoIdle
    /\ MapIdle
    /\ RestIdle

SpecAgain == InitAgain /\ [][NextAgain]_vars

\* no model is being loaded
LoaderIdle ==
    /\ mdl_disk = MissingFile
    /\ vtx_disk = MissingFile
    /\ vvd_disk = MissingFile
    /\ overflow_checks = FALSE
    /\ pc = "off"
    /\ mdl_file = NoOutcome
    /\ vtx_file = NoOutcome
    /\ vvd_file = NoOutcome
    /\ result = NoOutcome
    /\ first = NoRun

\* the specification of the containment queries: every point and every box
\* with coordinates up to MaxCoord, boxes with swapped or equal corners
\* included (BoundingBox::new takes any two points)
MaxCoord == 3

Points == (0..MaxCoord) \X (0..MaxCoord)

InitGeo ==
    /\ point \in Points
    /\ bbox \in Points \X Points
    /\ answer = NoAnswer
    /\ LoaderIdle
    /\ MapIdle
    /\ RestIdle

SpecGeo == InitGeo /\ [][NextGeo]_vars

\* the specification of the default map: no file, a file that opens but
\* cannot be read, the encodings of maps, encodings cut short, an empty
\* file and a name that is not text; a directory in which the file can be
\* written, cannot be created, or cannot be written after its creation
MapNames == {<<>>, <<77>>, DEFAULT_MAP_NAME}
Maps ==
    {DefaultMap}
    \cup {[name |-> n, dimensions |-> d] : n \in MapNames, d \in Points \X Points}
CutShort(data) == SubSeq(data, 1, Len(data) - 1)
MapFiles ==
    {NoMapFile, [st |-> "unreadable", data |-> <<>>], MapFile(<<>>),
     MapFile(serialize([name |-> <<255>>, dimensions |-> DEFAULT_MAP_DIMENSIONS]))}
    \cup {MapFile(serialize(m)) : m \in Maps}
    \cup {MapFile(CutShort(serialize(m))) : m \in Maps}
    \cup {MapFile(serialize(m) \o <<0>>) : m \in Maps}

InitMap ==
    /\ map_disk \in MapFiles
    /\ map_dir \in {"writable", "uncreatable", "unwritable"}
    /\ map_call = "none"
    /\ map_result = NoOutcome
    /\ LoaderIdle
    /\ GeoIdle
    /\ RestIdle

SpecMap == InitMap /\ [][NextMap]_vars

SpecMapAgain == InitMap /\ [][NextMapAgain]_vars

\* the header of the vertex-data fixture, vvdreader_itests.rs
FixtureHeader ==
    [num_fixups |-> 0, vertex_data_start |-> 64, tangent_data_start |-> 537856]

\* the specification of the vertex loop: the fixture, with 16 bytes of
\* tangent data per vertex behind the vertex block, and small files whose
\* tangent_data_start lies behind, at, in front of the vertex block, or
\* is negative, in buffers that end before or after it
LoopHeaders ==
    {[num_fixups |-> 0, vertex_data_start |-> v, tangent_data_start |-> t] :
        v \in {0, SizeofVVDFileHeader, 400},
        t \in {-8, 0, SizeofVVDFileHeader, 100, 208, 400}}

InitVertexLoop ==
    /\ vloop \in {VertexLoopStart(FixtureHeader, 717120)}
                   \cup {VertexLoopStart(h, len) :
                         h \in LoopHeaders, len \in {64, 256, 300}}
    /\ cacher = Off
    /\ app = Off
    /\ hal = Off
    /\ LoaderIdle
    /\ GeoIdle
    /\ MapIdle

SpecVertexLoop == InitVertexLoop /\ [][NextVertexLoop]_vars

\* the specification of the Cacher: a new Cacher around each closure, then
\* up to MaxCalls calls with arguments in 0..MaxArg
InitCacher ==
    /\ cacher \in {CacherNew(f) : f \in Calculations}
    /\ vloop = Off
    /\ app = Off
    /\ hal = Off
    /\ LoaderIdle
    /\ GeoIdle
    /\ MapIdle

SpecCacher == InitCacher /\ [][NextCacher]_vars

\* the specification of the application: a graphics state as HalState::new
\* builds it, with as many images as frames in flight or more, then
\* main_loop for up to MaxPolls polls
InitApp ==
    /\ \E frames_in_flight \in 1..MaxFramesInFlight :
       \E extra \in 0..MaxExtraImages :
          hal = HalStateNew(frames_in_flight, frames_in_flight + extra)
    /\ app = MainLoopStart
    /\ vloop = Off
    /\ cacher = Off
    /\ LoaderIdle
    /\ GeoIdle
    /\ MapIdle

SpecApp == InitApp /\ [][NextApp]_vars

(***************************************************************************)
(* Vocabulary of the properties                                            *)
(***************************************************************************)
\* the failure kind a message of the source stands for
Kind(msg) ==
    CASE msg \in {"Unable to open mdl file from disk",
                  "Error reading mdl file contents",
                  "Unable to open vtx file from disk",
                  "Error reading vtx file contents",
                  "Unable to open vvd file from disk",
                  "Error reading vvd file contents"} -> "Io"
      [] msg \in {"mdl header not correct; expected [0x49, 0x44, 0x53, 0x54]",
                  "vvd header not correct; expected [0x49, 0x44, 0x53, 0x56]"}
            -> "BadMagic"
      [] msg = "VTX version not correct; expected 7" -> "UnsupportedVersion"
      [] msg = "Error converting name to string" -> "InvalidText"
      [] msg = "Unable to load Source engine model" -> "BodyPartCountMismatch"
      [] msg = "Model checksum mismatch" -> "ChecksumMismatch"
      [] OTHER -> "None"

Returned == pc = "done"
AllDecoded == mdl_file.st = "ok" /\ vtx_file.st = "ok" /\ vvd_file.st = "ok"
Unavailable(file) == file.st \in {"missing", "unreadable"}

\* the decoded body-part counts, as plain integers
CountsAgree == mdl_file.v.header.bodypart_count = Len(vtx_file.v.bodyparts)

ChecksumsIdentical ==
    /\ mdl_file.v.header.checksum = vtx_file.v.header.checksum
    /\ vtx_file.v.header.checksum = vvd_file.v.header.checksum

\* well-formed files: the ones the builders lay out, with at least one body
\* part and one vertex
WellFormedMdl(f) ==
    \E c \in Checksums, n \in 1..MaxCount :
        f = BuildMdl(MDL_HEADER, c, n, ValidName, SizeofMDLFileHeader)

WellFormedVtx(f) ==
    \E c \in Checksums, n \in 1..MaxCount :
        f = BuildVtx([Ones EXCEPT !.nbp = n], c, OPTIMIZED_MODEL_FILE_VERSION)

WellFormedVvd(f) ==
    \E c \in Checksums, n \in 1..MaxVerts : f = BuildVvd(VVD_HEADER, c, 0, n)

\* a valid triple sharing one checksum
ValidTriple ==
    /\ WellFormedMdl(mdl_disk) /\ WellFormedVtx(vtx_disk)
    /\ WellFormedVvd(vvd_disk)
    /\ Word(mdl_disk, MdlOffChecksum) = Word(vtx_disk, VtxOffChecksum)
    /\ Word(vtx_disk, VtxOffChecksum) = Word(vvd_disk, VvdOffChecksum)
    /\ Word(mdl_disk, MdlOffBodypartCount) = Word(vtx_disk, VtxOffNumBodyParts)

(***************************************************************************)
(* C1: for every valid triple of files sharing one checksum,               *)
(* read_source_engine_model succeeds and the three checksums of the        *)
(* returned model are pairwise equal.                                      *)
(***************************************************************************)
C1_ValidTripleLoads ==
    (Returned /\ ValidTriple) =>
        /\ result.st = "ok"
        /\ result.v.mdl_file.header.checksum = result.v.vvd_file.header.checksum
        /\ result.v.vvd_file.header.checksum = result.v.vtx_file.header.checksum
        /\ result.v.mdl_file.header.checksum = result.v.vtx_file.header.checksum

(***************************************************************************)
(* C2: when the three decoders succeed and the body-part counts agree but  *)
(* the three checksums are not all identical, the call returns the         *)
(* checksum-mismatch failure and no model.                                 *)
(***************************************************************************)
C2_ChecksumMismatchFails ==
    (Returned /\ AllDecoded /\ CountsAgree /\ ~ChecksumsIdentical) =>
        /\ result.st = "err"
        /\ Kind(result.msg) = "ChecksumMismatch"

\* the mesh-topology file alone carries the other checksum
C2_Witness ==
    /\ Returned /\ AllDecoded /\ CountsAgree
    /\ mdl_file.v.header.checksum = vvd_file.v.header.checksum
    /\ vtx_file.v.header.checksum # vvd_file.v.header.checksum
    /\ result.st = "err"

(***************************************************************************)
(* C3: every returned model has bodypart_count equal to the number of      *)
(* decoded body parts; when the two differ, whatever the sign of the       *)
(* count, the call returns the body-part-count failure and no model.       *)
(***************************************************************************)
C3_BodyPartCountChecked ==
    /\ result.st = "ok" =>
          result.v.mdl_file.header.bodypart_count
              = Len(result.v.vtx_file.bodyparts)
    /\ (Returned /\ AllDecoded /\ ~CountsAgree) =>
          /\ result.st = "err"
          /\ Kind(result.msg) = "BodyPartCountMismatch"

\* a negative count in the studio header
C3_Witness ==
    /\ Returned /\ AllDecoded
    /\ mdl_file.v.header.bodypart_count < 0
    /\ Kind(result.msg) = "BodyPartCountMismatch"

(***************************************************************************)
(* C4: the failure returned is the first in the order: an Err of the       *)
(* studio, mesh-topology or vertex-data decoder, then the body-part-count  *)
(* mismatch, then the checksum mismatch.                                   *)
(***************************************************************************)
C4_FailureOrder ==
    Returned =>
        /\ mdl_file.st = "err" =>
              result.st = "err" /\ result.msg = mdl_file.msg
        /\ vtx_file.st = "err" =>
              result.st = "err" /\ result.msg = vtx_file.msg
        /\ vvd_file.st = "err" =>
              result.st = "err" /\ result.msg = vvd_file.msg
        /\ Kind(result.msg) = "BodyPartCountMismatch" => AllDecoded
        /\ Kind(result.msg) = "ChecksumMismatch" => AllDecoded /\ CountsAgree
        /\ (AllDecoded /\ ~CountsAgree /\ ~ChecksumsIdentical) =>
              Kind(result.msg) = "BodyPartCountMismatch"

\* both the counts and the checksums disagree
C4_Witness ==
    /\ Returned /\ AllDecoded /\ ~CountsAgree /\ ~ChecksumsIdentical
    /\ Kind(result.msg) = "BodyPartCountMismatch"

(***************************************************************************)
(* C9: a reader called on a missing or unreadable file returns an Io       *)
(* failure value, and so does read_source_engine_model; neither panics.    *)
(***************************************************************************)
C9_MissingFileIsErr ==
    /\ (mdl_file.st # "none" /\ Unavailable(mdl_disk)) =>
          /\ mdl_file.st = "err" /\ Kind(mdl_file.msg) = "Io"
          /\ result.st = "err" /\ result.msg = mdl_file.msg
    /\ (vtx_file.st # "none" /\ Unavailable(vtx_disk)) =>
          /\ vtx_file.st = "err" /\ Kind(vtx_file.msg) = "Io"
          /\ result.st = "err" /\ result.msg = vtx_file.msg
    /\ (vvd_file.st # "none" /\ Unavailable(vvd_disk)) =>
          /\ vvd_file.st = "err" /\ Kind(vvd_file.msg) = "Io"
          /\ result.st = "err" /\ result.msg = vvd_file.msg
    /\ (Returned /\ Unavailable(mdl_disk) /\ Unavailable(vtx_disk)
           /\ Unavailable(vvd_disk)) =>
          result.st = "err" /\ Kind(result.msg) = "Io"

\* the mesh-topology file is the missing one
C9_Witness ==
    /\ Returned /\ vtx_disk.st = "missing"
    /\ vtx_file.st = "err" /\ result.st = "err"

(***************************************************************************)
(* C5: in every tree the mesh-topology decoder returns, the declared count *)
(* of every nesting level equals the length of the collection decoded for  *)
(* it.                                                                     *)
(***************************************************************************)
StripGroupCountsMatch(sg) ==
    /\ sg.header.num_verts = Len(sg.vertices)
    /\ sg.header.num_indices = Len(sg.indices)
    /\ sg.header.num_strips = Len(sg.strips)

MeshCountsMatch(me) ==
    /\ me.header.num_strip_groups = Len(me.strip_groups)
    /\ \A n \in 1..Len(me.strip_groups) :
          StripGroupCountsMatch(me.strip_groups[n])

LodCountsMatch(lod) ==
    /\ lod.header.num_meshes = Len(lod.meshes)
    /\ \A m \in 1..Len(lod.meshes) : MeshCountsMatch(lod.meshes[m])

ModelCountsMatch(mo) ==
    /\ mo.header.num_lods = Len(mo.lods)
    /\ \A k \in 1..Len(mo.lods) : LodCountsMatch(mo.lods[k])

BodyPartCountsMatch(bp) ==
    /\ bp.header.num_models = Len(bp.models)
    /\ \A j \in 1..Len(bp.models) : ModelCountsMatch(bp.models[j])

TreeCountsMatch(vtx) ==
    /\ vtx.header.num_body_parts = Len(vtx.bodyparts)
    /\ \A i \in 1..Len(vtx.bodyparts) : BodyPartCountsMatch(vtx.bodyparts[i])

C5_CountsEqualLengths == vtx_file.st = "ok" => TreeCountsMatch(vtx_file.v)

(***************************************************************************)
(* C6: for every vertex-data file the decoder accepts, the flat vertex     *)
(* array has (tangent_data_start - vertex_data_start) / sizeof(Vertex)     *)
(* records and no record is read at or beyond tangent_data_start.          *)
(***************************************************************************)
VertexReads(log) == {k \in 1..Len(log) : log[k].ty = "VVDFileVertex"}

C6_VertexCount ==
    vvd_file.st = "ok" =>
        LET h == vvd_file.v.header
        IN  /\ Len(vvd_file.v.vertices)
                 = (h.tangent_data_start - h.vertex_data_start)
                       \div SizeofVVDFileVertex
            /\ \A k \in VertexReads(vvd_file.log) :
                  vvd_file.log[k].at < h.tangent_data_start

(***************************************************************************)
(* C7: a file whose first four bytes are not the required tag (mdl, vvd)   *)
(* or version (vtx) is rejected with BadMagic or UnsupportedVersion        *)
(* whatever follows; the decode does not panic, reads nothing outside the  *)
(* buffer and traverses no body part.                                      *)
(***************************************************************************)
HasFirstWord(file) == file.st = "ok" /\ file.len >= 4
NoOutsideRead(log) == \A k \in 1..Len(log) : ~log[k].oob
NoBodyPartRead(log) ==
    \A k \in 1..Len(log) : log[k].ty # "VTXFileBodyPartHeader"

C7_BadTagRejected ==
    /\ (mdl_file.st # "none" /\ HasFirstWord(mdl_disk)
           /\ Word(mdl_disk, 0) # MDL_HEADER) =>
          /\ mdl_file.st = "err" /\ Kind(mdl_file.msg) = "BadMagic"
          /\ NoOutsideRead(mdl_file.log)
    /\ (vtx_file.st # "none" /\ HasFirstWord(vtx_disk)
           /\ Word(vtx_disk, 0) # OPTIMIZED_MODEL_FILE_VERSION) =>
          /\ vtx_file.st = "err" /\ Kind(vtx_file.msg) = "UnsupportedVersion"
          /\ NoOutsideRead(vtx_file.log) /\ NoBodyPartRead(vtx_file.log)
    /\ (vvd_file.st # "none" /\ HasFirstWord(vvd_disk)
           /\ Word(vvd_disk, 0) # VVD_HEADER) =>
          /\ vvd_file.st = "err" /\ Kind(vvd_file.msg) = "BadMagic"
          /\ NoOutsideRead(vvd_file.log)

(***************************************************************************)
(* C8: a record read whose offset + width exceeds the buffer length makes  *)
(* the decode return a TruncatedBuffer failure value, and no byte outside  *)
(* the buffer is ever read.                                                *)
(***************************************************************************)
SomeReadRefused(log) == \E k \in 1..Len(log) : ~log[k].ok

BoundsChecked(outcome) ==
    /\ NoOutsideRead(outcome.log)
    /\ SomeReadRefused(outcome.log) =>
          outcome.st = "err" /\ Kind(outcome.msg) = "TruncatedBuffer"

C8_TruncatedBufferIsErr ==
    BoundsChecked(mdl_file) /\ BoundsChecked(vtx_file) /\ BoundsChecked(vvd_file)

(***************************************************************************)
(* C10: a failure at any depth of the mesh-topology decode aborts the      *)
(* decode: no record is decoded after it, the failure is what the call     *)
(* returns, and no partly built tree is returned.                          *)
(***************************************************************************)
\* the refused read is the last one and nothing was built
StopsAtFirstFailure(outcome) ==
    /\ \A k \in 1..Len(outcome.log) : ~outcome.log[k].ok => k = Len(outcome.log)
    /\ outcome.v = <<>>

C10_FailureAbortsDecode ==
    SomeReadRefused(vtx_file.log) =>
        /\ StopsAtFirstFailure(vtx_file)
        /\ vtx_file.st = "err"
        /\ result.st = "err" /\ result.msg = vtx_file.msg

(***************************************************************************)
(* C11: when the vertex-data header declares num_fixups > 0 the returned   *)
(* file carries a fixup table of num_fixups entries, entry i decoded at    *)
(* fixup_table_start + i * sizeof(VVDFileFixupTable); with num_fixups = 0  *)
(* the table is absent.                                                    *)
(***************************************************************************)
FixupTableDecoded(file, v) ==
    /\ v.fixup_table # "None"
    /\ Len(v.fixup_table) = v.header.num_fixups
    /\ \A i \in 1..Len(v.fixup_table) :
          v.fixup_table[i] =
              VVDFileFixupTableAt(file, v.header.fixup_table_start
                                           + (i - 1) * SizeofVVDFileFixupTable)

C11_FixupTable ==
    vvd_file.st = "ok" =>
        IF vvd_file.v.header.num_fixups > 0
        THEN FixupTableDecoded(vvd_disk, vvd_file.v)
        ELSE vvd_file.v.fixup_table = "None"

(***************************************************************************)
(* C12: the studio-model decoder returns as name exactly the bytes of the  *)
(* 64-byte name field that precede its first null byte; when those bytes   *)
(* are not well-formed text it returns the InvalidText failure and no      *)
(* model.                                                                  *)
(***************************************************************************)
HasNameField(file) == file.st = "ok" /\ file.len >= MdlOffName + MdlNameLen

\* text is the part of field in front of field's first null byte
IsTextBeforeNull(text, field) ==
    /\ Len(text) < Len(field)
    /\ \A k \in 1..Len(text) : text[k] = field[k] /\ text[k] # 0
    /\ field[Len(text) + 1] = 0

C12_DisplayName ==
    (mdl_file.st # "none" /\ HasNameField(mdl_disk)) =>
        /\ mdl_file.st = "ok" =>
              /\ IsTextBeforeNull(mdl_file.v.name, mdl_disk.name)
              /\ ValidUtf8(mdl_file.v.name, 1)
        /\ (/\ Word(mdl_disk, 0) = MDL_HEADER
            /\ \E n \in 0..(MdlNameLen - 1) :
                  /\ IsTextBeforeNull(SubSeq(mdl_disk.name, 1, n), mdl_disk.name)
                  /\ ~ValidUtf8(SubSeq(mdl_disk.name, 1, n), 1)) =>
              mdl_file.st = "err" /\ Kind(mdl_file.msg) = "InvalidText"

\* a name field with a non-zero byte behind the terminator
C12_Witness ==
    /\ mdl_file.st = "ok" /\ HasNameField(mdl_disk)
    /\ Len(mdl_file.v.name) > 0
    /\ \E k \in (Len(mdl_file.v.name) + 2)..MdlNameLen : mdl_disk.name[k] # 0

\* a name field whose text is cut inside a two-byte sequence
C12_WitnessInvalid ==
    /\ mdl_file.st = "err" /\ Kind(mdl_file.msg) = "InvalidText"
    /\ mdl_disk.name[1] = 195 /\ mdl_disk.name[2] = 0

\* what a call may end in: nothing yet, a value, or a failure value
ValueOrFailure(outcome) == outcome.st \in {"none", "ok", "err"}

(***************************************************************************)
(* C13: every decode ends in a decoded structure or in a failure value,    *)
(* whatever the input; a name field without a null byte, and a fixup entry *)
(* that extends past vertex_data_start, do not make the call panic.        *)
(***************************************************************************)
C13_NoPanic ==
    /\ ValueOrFailure(mdl_file)
    /\ ValueOrFailure(vtx_file)
    /\ ValueOrFailure(vvd_file)
    /\ ValueOrFailure(result)

(***************************************************************************)
(* C14: decoding is deterministic: a second load of the same file contents *)
(* gives, for each of the three decoders and for the load as a whole, the  *)
(* outcome the first load gave, and on success an equal tree.              *)
(***************************************************************************)
C14_Deterministic ==
    first # NoRun =>
        /\ mdl_file.st # "none" => Handed(mdl_file) = first.mdl
        /\ vtx_file.st # "none" => Handed(vtx_file) = first.vtx
        /\ vvd_file.st # "none" => Handed(vvd_file) = first.vvd
        /\ result.st # "none" => Handed(result) = first.result

(***************************************************************************)
(* C15: on success the model's position list and normal list each have as  *)
(* many elements as the decoded flat vertex array, and element i of each   *)
(* is the position, respectively the normal, of vertex i.                  *)
(***************************************************************************)
C15_Projection ==
    result.st = "ok" =>
        LET flat == result.v.vvd_file.vertices
        IN  /\ Len(result.v.vertices) = Len(flat)
            /\ Len(result.v.normals) = Len(flat)
            /\ \A i \in 1..Len(flat) :
                  /\ result.v.vertices[i].position = flat[i].vec_position
                  /\ result.v.normals[i].position = flat[i].vec_normal

\* a model of several vertices, no two alike, normals unlike positions
C15_Witness ==
    /\ result.st = "ok"
    /\ Len(result.v.vvd_file.vertices) >= 2
    /\ \A i, j \in 1..Len(result.v.vvd_file.vertices) :
          /\ i # j => result.v.vertices[i] # result.v.vertices[j]
          /\ result.v.vertices[i] # result.v.normals[j]

(***************************************************************************)
(* C17: for every point p and bounding box bb, p.inside(bb) and            *)
(* bb.contains(p) return the same value, and that value is true exactly    *)
(* when p lies strictly between the lower-left and the upper-right corner  *)
(* on both axes; a point on an edge of the box is not inside.              *)
(***************************************************************************)
StrictlyBetween(p, bb) ==
    /\ bb[1][1] < p[1] /\ p[1] < bb[2][1]
    /\ bb[1][2] < p[2] /\ p[2] < bb[2][2]

OnEdge(p, bb) ==
    /\ bb[1][1] <= p[1] /\ p[1] <= bb[2][1]
    /\ bb[1][2] <= p[2] /\ p[2] <= bb[2][2]
    /\ p[1] \in {bb[1][1], bb[2][1]} \/ p[2] \in {bb[1][2], bb[2][2]}

C17_InsideIsContains ==
    /\ \A q \in DOMAIN answer : answer[q] = StrictlyBetween(point, bbox)
    /\ \A q \in DOMAIN answer : OnEdge(point, bbox) => ~answer[q]
    /\ \A q, r \in DOMAIN answer : answer[q] = answer[r]

\* a point on the lower edge of a box with room inside, both queries made
C17_Witness ==
    /\ {"contains", "inside"} \subseteq DOMAIN answer
    /\ OnEdge(point, bbox)
    /\ bbox[2][1] - bbox[1][1] >= 2 /\ bbox[2][2] - bbox[1][2] >= 2
    /\ point[2] = bbox[1][2] /\ bbox[1][1] < point[1] /\ point[1] < bbox[2][1]
    /\ ~answer["contains"] /\ ~answer["inside"]

\* a point inside, both queries made
C17_WitnessInside ==
    /\ {"contains", "inside"} \subseteq DOMAIN answer
    /\ answer["contains"] /\ answer["inside"]

(***************************************************************************)
(* C18: get_default_map returns an Err variant whenever there is any       *)
(* issue loading the map file from disk (the file cannot be opened, cannot *)
(* be read, or does not deserialize); it returns Ok only with the map that *)
(* was loaded from the file.                                               *)
(***************************************************************************)
LoadIssue(file) == file.st # "ok" \/ deserialize_map(file.data).st # "ok"

C18_ErrOnAnyIssue ==
    [][(map_call = "none" /\ map_call' = "get_default_map") =>
          /\ LoadIssue(map_disk) => map_result'.st = "err"
          /\ map_result'.st = "ok" =>
                /\ map_disk.st = "ok"
                /\ deserialize_map(map_disk.data) = map_result']_vars

(***************************************************************************)
(* C19: for every i in 0..header.num_body_parts, the BodyPart header i is  *)
(* the record decoded at absolute offset header.body_part_offset +         *)
(* i * sizeof(BodyPartHeader), and that same offset is the base            *)
(* (bodypart_start) used to resolve the body part's model_offset.          *)
(***************************************************************************)
BodyPartOffset(i) ==
    Word(vtx_disk, VtxOffBodyPartOffset) + i * SizeofVTXFileBodyPartHeader

C19_BodyPartOffsets ==
    vtx_file.st = "ok" =>
        \A i \in 1..Len(vtx_file.v.bodyparts) :
            /\ vtx_file.v.bodyparts[i].at = BodyPartOffset(i - 1)
            /\ vtx_file.v.bodyparts[i].start = BodyPartOffset(i - 1)
            /\ vtx_file.v.bodyparts[i].header =
                   BodyPartHeaderAt(vtx_disk, BodyPartOffset(i - 1))

(***************************************************************************)
(* C20: for every body part and every j in 0..bodypart.num_models, the     *)
(* Model header j is the record decoded at bodypart_start +                *)
(* bodypart.model_offset + j * sizeof(ModelHeader), and the base           *)
(* (model_start) used to resolve that model's lod_offset is the absolute   *)
(* offset the header was decoded from.                                     *)
(***************************************************************************)
ModelOffset(bodypart, j) ==
    bodypart.start + bodypart.header.model_offset + j * SizeofVTXFileModelHeader

C20_ModelOffsets ==
    vtx_file.st = "ok" =>
        \A i \in 1..Len(vtx_file.v.bodyparts) :
            LET bodypart == vtx_file.v.bodyparts[i]
            IN  \A j \in 0..(bodypart.header.num_models - 1) :
                    /\ j + 1 \in 1..Len(bodypart.models)
                    /\ bodypart.models[j + 1].at = ModelOffset(bodypart, j)
                    /\ bodypart.models[j + 1].start = ModelOffset(bodypart, j)
                    /\ bodypart.models[j + 1].header =
                           ModelHeaderAt(vtx_disk, ModelOffset(bodypart, j))

\* a decoded body part with two models
C20_Witness ==
    /\ vtx_file.st = "ok"
    /\ \E i \in 1..Len(vtx_file.v.bodyparts) :
          /\ vtx_file.v.bodyparts[i].header.num_models >= 2
          /\ Len(vtx_file.v.bodyparts[i].models) >= 2

(***************************************************************************)
(* C21: for every model and every k in 0..model.num_lods, the              *)
(* LevelOfDetail header k is the record decoded at model_start +           *)
(* model.lod_offset + k * sizeof(LODHeader), and the base (lod_start) used *)
(* to resolve that LOD's mesh_offset is the absolute offset the header     *)
(* was decoded from.                                                       *)
(***************************************************************************)
LodOffset(model, k) ==
    model.start + model.header.lod_offset + k * SizeofVTXFileModelLODHeader

C21_LodOffsets ==
    vtx_file.st = "ok" =>
        \A i \in 1..Len(vtx_file.v.bodyparts) :
            \A j \in 1..Len(vtx_file.v.bodyparts[i].models) :
                LET model == vtx_file.v.bodyparts[i].models[j]
                IN  \A k \in 0..(model.header.num_lods - 1) :
                        /\ k + 1 \in 1..Len(model.lods)
                        /\ model.lods[k + 1].at = LodOffset(model, k)
                        /\ model.lods[k + 1].start = model.lods[k + 1].at
                        /\ model.lods[k + 1].header =
                               ModelLODHeaderAt(vtx_disk, LodOffset(model, k))

(***************************************************************************)
(* C22: for every mesh and every n in 0..mesh.num_strip_groups, the        *)
(* StripGroup header n is the record decoded at mesh_start +               *)
(* mesh.strip_group_offset + n * sizeof(StripGroupHeader), where           *)
(* mesh_start is lod_start + lod.mesh_offset + m * sizeof(MeshHeader) for  *)
(* mesh m, and that offset is the base used to resolve the strip group's   *)
(* vertex, index and strip offsets.                                        *)
(***************************************************************************)
MeshOffset(lod, m) ==
    lod.start + lod.header.mesh_offset + m * SizeofVTXFileMeshHeader

StripGroupOffset(lod, m, n) ==
    MeshOffset(lod, m) + lod.meshes[m + 1].header.strip_group_header_offset
        + n * SizeofVTXFileStripGroupHeader

\* the LODs of a decoded file
LodsOf(file) ==
    {file.bodyparts[i].models[j].lods[k] :
        <<i, j, k>> \in {t \in (1..Len(file.bodyparts)) \X (1..MaxCount + 1)
                                \X (1..MaxCount + 1) :
                           /\ t[2] <= Len(file.bodyparts[t[1]].models)
                           /\ t[3] <= Len(file.bodyparts[t[1]].models[t[2]].lods)}}

C22_StripGroupOffsets ==
    vtx_file.st = "ok" =>
        \A lod \in LodsOf(vtx_file.v) :
            \A m \in 0..(Len(lod.meshes) - 1) :
                LET mesh == lod.meshes[m + 1]
                IN  \A n \in 0..(mesh.header.num_strip_groups - 1) :
                        /\ n + 1 \in 1..Len(mesh.strip_groups)
                        /\ mesh.strip_groups[n + 1].at = StripGroupOffset(lod, m, n)
                        /\ mesh.strip_groups[n + 1].start = StripGroupOffset(lod, m, n)
                        /\ mesh.strip_groups[n + 1].header =
                               StripGroupHeaderAt(vtx_disk, StripGroupOffset(lod, m, n))

(***************************************************************************)
(* C23: for every strip group and each of its three (count, offset) pairs  *)
(* (vertices, indices, strips): whenever the count is non-zero the array   *)
(* is decoded, whatever the value of the offset, and its element e is the  *)
(* record at strip_group_start + offset + e * sizeof(record) for every e   *)
(* in 0..count; the three arrays are decoded independently of one another. *)
(***************************************************************************)
\* the strip groups of a decoded file
StripGroupsOf(file) ==
    UNION {{lod.meshes[m].strip_groups[n] :
               <<m, n>> \in {t \in (1..Len(lod.meshes)) \X (1..MaxCount + 1) :
                               t[2] <= Len(lod.meshes[t[1]].strip_groups)}} :
           lod \in LodsOf(file)}

ArrayDecoded(array, count, base, offset, size) ==
    count > 0 =>
        /\ Len(array) = count
        /\ \A e \in 0..(count - 1) : array[e + 1].at = base + offset + e * size

C23_StripGroupArrays ==
    vtx_file.st = "ok" =>
        \A sg \in StripGroupsOf(vtx_file.v) :
            /\ ArrayDecoded(sg.vertices, sg.header.num_verts, sg.start,
                            sg.header.vert_offset, SizeofVTXFileVertex)
            /\ ArrayDecoded(sg.indices, sg.header.num_indices, sg.start,
                            sg.header.index_offset, SizeofVTXFileIndex)
            /\ ArrayDecoded(sg.strips, sg.header.num_strips, sg.start,
                            sg.header.strip_offset, SizeofVTXFileStripHeader)

(***************************************************************************)
(* C24: for a vertex-data header with num_fixups = 0, vertex_data_start =  *)
(* 64 and tangent_data_start = 537856 (48-byte Vertex records), the        *)
(* decoded flat vertex array has exactly 11205 elements.                   *)
(***************************************************************************)
C24_FixtureVertexCount ==
    vloop.pc # "off" /\ vloop.header = FixtureHeader =>
        /\ vloop.pc # "panic"
        /\ vloop.pc = "done" => vloop.n = 11205

\* the fixture's loop has run to its end
C24_Witness ==
    vloop.pc = "done" /\ vloop.header = FixtureHeader /\ vloop.n = 11205

(***************************************************************************)
(* C25: every decode call terminates after finitely many record reads,     *)
(* for every buffer and every header contents: the mesh-topology           *)
(* traversal descends a fixed five levels and reads at most the declared   *)
(* count of records per level, so offsets that point backwards or at the   *)
(* parent itself cannot cause an unbounded traversal, and the vertex-data  *)
(* loop's read offset strictly increases by sizeof(Vertex) per iteration   *)
(* until it passes tangent_data_start or the read fails.                   *)
(***************************************************************************)
AtMost(decoded, count) == Len(decoded) <= (IF count > 0 THEN count ELSE 0)

MeshesOf(file) ==
    UNION {{lod.meshes[m] : m \in 1..Len(lod.meshes)} : lod \in LodsOf(file)}

ModelsOf(file) ==
    UNION {{file.bodyparts[i].models[j] :
               j \in 1..Len(file.bodyparts[i].models)} :
           i \in 1..Len(file.bodyparts)}

\* the part of the claim about the vertex loop: the offset grows by one
\* record per iteration, and the loop ends
VertexLoopAdvances ==
    [][vloop.pc = "loop" /\ vloop'.pc = "loop" =>
          vloop'.vertex_start_index =
              vloop.vertex_start_index + SizeofVVDFileVertex]_vars

VertexLoopEnds == vloop.pc = "loop" ~> vloop.pc \in {"done", "panic"}

SpecVertexLoopFair == SpecVertexLoop /\ WF_vars(NextVertexLoop)

\* C25, the part about the mesh-topology traversal: no level of a decoded
\* tree holds more records than its header declares
C25_ReadsBounded ==
    vtx_file.st = "ok" =>
        /\ AtMost(vtx_file.v.bodyparts, vtx_file.v.header.num_body_parts)
        /\ \A i \in 1..Len(vtx_file.v.bodyparts) :
              AtMost(vtx_file.v.bodyparts[i].models,
                     vtx_file.v.bodyparts[i].header.num_models)
        /\ \A model \in ModelsOf(vtx_file.v) :
              AtMost(model.lods, model.header.num_lods)
        /\ \A lod \in LodsOf(vtx_file.v) :
              AtMost(lod.meshes, lod.header.num_meshes)
        /\ \A mesh \in MeshesOf(vtx_file.v) :
              AtMost(mesh.strip_groups, mesh.header.num_strip_groups)
        /\ \A sg \in StripGroupsOf(vtx_file.v) :
              /\ AtMost(sg.vertices, sg.header.num_verts)
              /\ AtMost(sg.indices, sg.header.num_indices)
              /\ AtMost(sg.strips, sg.header.num_strips)

(***************************************************************************)
(* C26: for any sequence of Cacher::value calls with any arguments, each   *)
(* call returns calculation(arg) for its own argument: a value cached for  *)
(* one argument is never returned for a different argument.                *)
(***************************************************************************)
C26_ValueOfOwnArgument ==
    cacher.pc = "on" /\ cacher.calls > 0 =>
        cacher.ret = calculation(cacher.calculation, cacher.arg)

\* a call with a second argument, whose value differs from the first one's
C26_Witness ==
    /\ cacher.pc = "on" /\ cacher.calls >= 2
    /\ \E a \in DOMAIN cacher.values :
          a # cacher.arg /\ cacher.values[a] # cacher.ret

(***************************************************************************)
(* C27: over any sequence of Cacher::value calls, the wrapped calculation  *)
(* is invoked at most once per distinct argument (exactly once on the      *)
(* first call with that argument, never on a later call), and the set of   *)
(* cached arguments only grows: an entry, once stored, is never removed or *)
(* overwritten.                                                            *)
(***************************************************************************)
Ran(c, a) == IF a \in DOMAIN c.ran THEN c.ran[a] ELSE 0

C27_OncePerArgument ==
    [][(cacher.pc = "on" /\ cacher'.pc = "on") =>
          /\ \A a \in 0..MaxArg : Ran(cacher', a) <= 1
          /\ Ran(cacher', cacher'.arg) = 1
          /\ \A a \in 0..MaxArg :
                Ran(cacher', a) # Ran(cacher, a) =>
                    a = cacher'.arg /\ a \notin DOMAIN cacher.values
          /\ DOMAIN cacher.values \subseteq DOMAIN cacher'.values
          /\ \A a \in DOMAIN cacher.values :
                cacher'.values[a] = cacher.values[a]]_vars

\* an argument asked for a second time, others asked in between
C27_Witness ==
    /\ cacher.pc = "on"
    /\ cacher.calls > Cardinality(DOMAIN cacher.values)
    /\ Cardinality(DOMAIN cacher.values) >= 2

(***************************************************************************)
(* C28: whenever get_default_map returns Ok(m), loaded or recreated, the   *)
(* map file then holds the serialization of m, so an immediately following *)
(* get_default_map call returns a map equal to m; a recreated map has the  *)
(* name "Default Map" and the dimensions (0,0)-(100,100).                  *)
(***************************************************************************)
HoldsExactly(file, m) == file.st = "ok" /\ file.data = serialize(m)

BeginsWith(file, m) ==
    /\ file.st = "ok"
    /\ Len(file.data) >= Len(serialize(m))
    /\ SubSeq(file.data, 1, Len(serialize(m))) = serialize(m)

FirstCall == map_call = "none" /\ map_call' = "get_default_map"
SecondCall == map_call = "get_default_map" /\ map_call' = "get_default_map again"
Recreated == LoadIssue(map_disk) \/ map_call' = "recreate_default_map"

\* the claim as stated: the file is exactly the serialization of m
C28_FileIsSerialization ==
    [][/\ (FirstCall /\ map_result'.st = "ok") =>
              HoldsExactly(map_disk', map_result'.v)
       /\ (SecondCall /\ map_result.st = "ok") => map_result' = map_result
       /\ (map_call = "none" /\ Recreated /\ map_result'.st = "ok") =>
              /\ map_result'.v.name = DEFAULT_MAP_NAME
              /\ map_result'.v.dimensions = DEFAULT_MAP_DIMENSIONS]_vars

\* C28, amended: whenever get_default_map returns Ok(m), the map file then
\* begins with the serialization of m (a loaded file may carry bytes after
\* it; a recreated file is exactly the serialization), so an immediately
\* following get_default_map call returns a map equal to m and leaves the
\* file as it is; a recreated map has the name "Default Map" and the
\* dimensions (0,0)-(100,100).
C28_FileBeginsWithSerialization ==
    [][/\ (FirstCall /\ map_result'.st = "ok") =>
              BeginsWith(map_disk', map_result'.v)
       /\ (SecondCall /\ map_result.st = "ok") =>
              /\ map_result' = map_result
              /\ map_disk' = map_disk
       /\ (map_call = "none" /\ Recreated /\ map_result'.st = "ok") =>
              /\ HoldsExactly(map_disk', map_result'.v)
              /\ map_result'.v.name = DEFAULT_MAP_NAME
              /\ map_result'.v.dimensions = DEFAULT_MAP_DIMENSIONS]_vars

\* a second call has returned the map of a file that carries bytes after
\* the serialization
C28_Witness ==
    /\ map_call = "get_default_map again"
    /\ map_result.st = "ok"
    /\ BeginsWith(map_disk, map_result.v)
    /\ ~HoldsExactly(map_disk, map_result.v)

\* a second call has returned the map the first call recreated
C28_WitnessRecreated ==
    /\ map_call = "get_default_map again"
    /\ map_result.st = "ok"
    /\ map_result.v = DefaultMap
    /\ HoldsExactly(map_disk, DefaultMap)

(***************************************************************************)
(* C29: the main loop runs until a close request is received: it exits at  *)
(* the first poll whose input reports end_requested, without rendering a   *)
(* frame in that iteration or afterwards; in every other iteration it      *)
(* attempts exactly one frame render; a render error does not end the loop *)
(* (the graphics state is rebuilt and polling continues).                  *)
(***************************************************************************)
\* the renders attempted are one for every poll that did not report
\* end_requested, the one still to come aside
OneRenderPerIteration ==
    app.renders = app.polls - (IF app.pc = "exited" THEN 1 ELSE 0)
                            - (IF app.pc = "render" THEN 1 ELSE 0)

\* a poll that reports end_requested exits the loop and renders nothing;
\* any other poll goes on to a render; once exited, nothing is rendered
ExitsAtCloseRequest ==
    /\ (app.pc = "poll" /\ app'.polls = app.polls + 1) =>
          /\ app'.renders = app.renders
          /\ app'.pc = IF app'.inputs.end_requested THEN "exited" ELSE "render"
    /\ app.pc = "exited" => app' = app
    /\ app'.pc = "exited" => app'.inputs.end_requested

C30_CurrentFrame ==
    /\ [](hal.pc = "on" =>
            hal.current_frame >= 0 /\ hal.current_frame < hal.frames_in_flight)
    /\ [][(app.pc = "render" /\ app'.renders = app.renders + 1) =>
             /\ hal'.frames_in_flight = hal.frames_in_flight
             /\ hal'.current_frame =
                    (hal.current_frame + 1) % hal.frames_in_flight]_vars

\* three calls on a graphics state with three frames in flight, the last
\* of them failing: current_frame has gone round to 0
C30_Witness ==
    /\ app.pc = "restart"
    /\ app.rebuilds = 0
    /\ app.renders = 3
    /\ hal.frames_in_flight = 3
    /\ hal.current_frame = 0

====
